---------------------------- MODULE Spec2Model ----------------------------
(***************************************************************************)
(* A model of the cypress-healing selector healing engine:                 *)
(*   src/src/selectorUtils.ts   escapers, exclusion filter, the heuristic  *)
(*                              matchers and healSelector                  *)
(*   src/src/healingService.ts  HealingService: cache, persisted store,    *)
(*                              provider registry and heal                 *)
(*                                                                         *)
(* JavaScript strings are sequences of one-character strings, so that the  *)
(* escapers and the exclusion patterns work on characters.  A document is  *)
(* the sequence of its elements in document order.                         *)
(***************************************************************************)
EXTENDS Integers, Sequences, FiniteSets, TLC

(***************************************************************************)
(* Characters and strings                                                  *)
(***************************************************************************)
BS == "\\"
DQ == "\""
SQ == "'"
NL == "\n"
CR == "\r"
TAB == "\t"
\* The grave accent, which the lexer does not accept inside a string.
BT == "grave"

Digits == {"0", "1", "2", "3", "4", "5", "6", "7", "8", "9"}

\* The character class of the regular expression of escapeCSSSelector.
ReservedPunct ==
    {"!", DQ, "#", "$", "%", "&", SQ, "(", ")", "*", "+", ",", ".", "/", ":",
     ";", "<", "=", ">", "?", "@", "[", BS, "]", "^", BT, "{", "|", "}", "~"}

\* String.prototype.replace(/c/g, r): every occurrence of the character c,
\* left to right, replaced by the string r.
RECURSIVE ReplaceAll(_, _, _)
ReplaceAll(s, c, r) ==
    IF s = <<>> THEN <<>>
    ELSE (IF Head(s) = c THEN r ELSE <<Head(s)>>) \o ReplaceAll(Tail(s), c, r)

\* String.prototype.replace(/([set])/g, '\\$1')
RECURSIVE PrefixAll(_, _)
PrefixAll(s, set) ==
    IF s = <<>> THEN <<>>
    ELSE (IF Head(s) \in set THEN <<BS, Head(s)>> ELSE <<Head(s)>>)
         \o PrefixAll(Tail(s), set)

\* String.prototype.startsWith
StartsWith(s, p) == Len(p) <= Len(s) /\ SubSeq(s, 1, Len(p)) = p

\* String.prototype.includes
Includes(s, p) ==
    \E i \in 1..(Len(s) - Len(p) + 1) : SubSeq(s, i, i + Len(p) - 1) = p

\* String.prototype.trim: leading and trailing white space removed.
WhiteSpace == {" ", NL, CR, TAB}

RECURSIVE TrimLeft(_)
TrimLeft(s) ==
    IF s # <<>> /\ Head(s) \in WhiteSpace THEN TrimLeft(Tail(s)) ELSE s

RECURSIVE TrimRight(_)
TrimRight(s) ==
    IF s # <<>> /\ s[Len(s)] \in WhiteSpace
    THEN TrimRight(SubSeq(s, 1, Len(s) - 1)) ELSE s

Trim(s) == TrimRight(TrimLeft(s))

(***************************************************************************)
(* Selector escapers (selectorUtils.ts)                                    *)
(***************************************************************************)
\* The replacements of escapeText with the backslash step made last.
escapeTextBackslashLast(text) ==
    LET s1 == ReplaceAll(text, DQ, <<BS, DQ>>)
        s2 == ReplaceAll(s1, SQ, <<BS, SQ>>)
        s3 == ReplaceAll(s2, NL, <<BS, "n">>)
        s4 == ReplaceAll(s3, CR, <<BS, "r">>)
        s5 == ReplaceAll(s4, TAB, <<BS, "t">>)
    IN  ReplaceAll(s5, BS, <<BS, BS>>)

escapeText(text) ==
    LET s1 == ReplaceAll(text, BS, <<BS, BS>>)
        s2 == ReplaceAll(s1, DQ, <<BS, DQ>>)
        s3 == ReplaceAll(s2, SQ, <<BS, SQ>>)
        s4 == ReplaceAll(s3, NL, <<BS, "n">>)
        s5 == ReplaceAll(s4, CR, <<BS, "r">>)
    IN  ReplaceAll(s5, TAB, <<BS, "t">>)

\* String.prototype.replace without the g flag: the first match only.
RECURSIVE PrefixFirst(_, _)
PrefixFirst(s, set) ==
    IF s = <<>> THEN <<>>
    ELSE IF Head(s) \in set THEN <<BS, Head(s)>> \o Tail(s)
    ELSE <<Head(s)>> \o PrefixFirst(Tail(s), set)

escapeCSSSelectorFirstOnly(str) ==
    IF str = <<>> THEN str ELSE PrefixFirst(str, ReservedPunct)

escapeCSSSelector(str) ==
    IF str = <<>> THEN str ELSE PrefixAll(str, ReservedPunct)

\* The replacements of escapeAttributeValue in the other order.
escapeAttributeValueQuotesFirst(value) ==
    IF value = <<>> THEN value
    ELSE ReplaceAll(ReplaceAll(value, DQ, <<BS, DQ>>), BS, <<BS, BS>>)

escapeAttributeValue(value) ==
    IF value = <<>> THEN value
    ELSE ReplaceAll(ReplaceAll(value, BS, <<BS, BS>>), DQ, <<BS, DQ>>)


(***************************************************************************)
(* Exclusion filter (selectorUtils.ts).  An exclusion pattern is the       *)
(* source text of a regular expression.  The patterns of the model are of  *)
(* the shapes the configuration uses: an optional ^, then literal          *)
(* characters and [0-9]+ groups, then an optional $.                       *)
(***************************************************************************)
DigitsPlus == <<"[", "0", "-", "9", "]", "+">>

RECURSIVE ParseAtoms(_)
ParseAtoms(body) ==
    IF body = <<>> THEN <<>>
    ELSE IF StartsWith(body, DigitsPlus)
         THEN <<[k |-> "digits", c |-> ""]>>
              \o ParseAtoms(SubSeq(body, Len(DigitsPlus) + 1, Len(body)))
         ELSE <<[k |-> "lit", c |-> Head(body)]>> \o ParseAtoms(Tail(body))

\* The positions at which a match of atoms that starts at position i of v
\* can end (one past its last character).
RECURSIVE MatchEnds(_, _, _)
MatchEnds(atoms, v, i) ==
    IF atoms = <<>> THEN {i}
    ELSE IF Head(atoms).k = "lit"
         THEN IF i <= Len(v) /\ v[i] = Head(atoms).c
              THEN MatchEnds(Tail(atoms), v, i + 1) ELSE {}
         ELSE UNION { MatchEnds(Tail(atoms), v, j) :
                      j \in { n \in (i + 1)..(Len(v) + 1) :
                              \A m \in i..(n - 1) : v[m] \in Digits } }

\* new RegExp(pattern).test(value)
RegexTest(pattern, value) ==
    LET atStart == pattern # <<>> /\ Head(pattern) = "^"
        p1 == IF atStart THEN Tail(pattern) ELSE pattern
        atEnd == p1 # <<>> /\ p1[Len(p1)] = "$"
        p2 == IF atEnd THEN SubSeq(p1, 1, Len(p1) - 1) ELSE p1
        atoms == ParseAtoms(p2)
        starts == IF atStart THEN {1} ELSE 1..(Len(value) + 1)
    IN  \E i \in starts : \E j \in MatchEnds(atoms, value, i) :
            atEnd => j = Len(value) + 1

\* An exclusion test that asks every pattern to match (every for some).
isExcludedPatternEvery(value, patterns) ==
    patterns # <<>> /\ \A n \in 1..Len(patterns) : RegexTest(patterns[n], value)

\* patterns is the list, or <<>> when the option is undefined.
isExcludedPattern(value, patterns) ==
    \E n \in 1..Len(patterns) : RegexTest(patterns[n], value)

\* A cleaning that removes the first ^, the first $ and the first hyphen only.
cleanPatternFirstOnly(pattern) ==
    LET Drop(s, c) ==
            IF \E i \in 1..Len(s) : s[i] = c
            THEN LET i == CHOOSE i \in 1..Len(s) :
                             s[i] = c /\ \A j \in 1..(i - 1) : s[j] # c
                 IN  SubSeq(s, 1, i - 1) \o SubSeq(s, i + 1, Len(s))
            ELSE s
    IN  Drop(Drop(Drop(pattern, "^"), "$"), "-")

cleanPattern(pattern) ==
    ReplaceAll(ReplaceAll(ReplaceAll(pattern, "^", <<>>), "$", <<>>), "-", <<>>)

containsExcludedPattern(value, patterns) ==
    \E n \in 1..Len(patterns) : Includes(value, cleanPattern(patterns[n]))

(***************************************************************************)
(* HealOptions.  An options object is the function from the keys that hold *)
(* a value to their values (vals) and the set of the keys that are present *)
(* with the value undefined (undef).                                       *)
(***************************************************************************)
OptionKeys ==
    {"priority", "excludePatterns", "logging", "maxTextLength", "minTextLength"}

NoOptions == [vals |-> <<>>, undef |-> {}]

\* { ...a, ...b }: every own key of b, also one holding undefined, wins.
SpreadMerge(a, b) ==
    [vals  |-> [k \in (DOMAIN a.vals \ b.undef) \cup DOMAIN b.vals |->
                   IF k \in DOMAIN b.vals THEN b.vals[k] ELSE a.vals[k]],
     undef |-> (a.undef \ DOMAIN b.vals) \cup b.undef]

HasValue(o, k) == k \in DOMAIN o.vals

\* opts.priority || []
PriorityOf(o) == IF HasValue(o, "priority") THEN o.vals["priority"] ELSE <<>>

\* opts.excludePatterns, with undefined read as no pattern
PatternsOf(o) ==
    IF HasValue(o, "excludePatterns") THEN o.vals["excludePatterns"] ELSE <<>>

LoggingOf(o) == HasValue(o, "logging") /\ o.vals["logging"]

DefaultMinTextLength == 1
DefaultMaxTextLength == 50

isValidTextLength(text, o) ==
    LET minLength == IF HasValue(o, "minTextLength") /\ o.vals["minTextLength"] # 0
                     THEN o.vals["minTextLength"] ELSE DefaultMinTextLength
        maxLength == IF HasValue(o, "maxTextLength") /\ o.vals["maxTextLength"] # 0
                     THEN o.vals["maxTextLength"] ELSE DefaultMaxTextLength
    IN  Len(text) >= minLength /\ Len(text) <= maxLength


(***************************************************************************)
(* Documents and selectors.  An element is [tag, attrs, text]: attrs maps  *)
(* the attributes the element carries to their values, text is its         *)
(* textContent.  A selector the engine builds is kept in its parts:        *)
(*   attr          [name="value"]                                          *)
(*   attrContains  [name="value"]:contains("text")                         *)
(*   tagContains   tag:contains("text")                                    *)
(*   contains      :contains("text")                                       *)
(*   id            #value                                                  *)
(*   class         .value                                                  *)
(*   tagClass      tag.value                                               *)
(*   raw           value, a selector string taken as it is                 *)
(*   null          no selector (JavaScript null)                           *)
(* value and text hold the ESCAPED characters, as they stand in the        *)
(* selector string.                                                        *)
(***************************************************************************)
Sel(form, tag, name, value, text) ==
    [form |-> form, tag |-> tag, name |-> name, value |-> value, text |-> text]

NullSel == Sel("null", "", "", <<>>, <<>>)

RawSel(chars) == Sel("raw", "", "", chars, <<>>)

\* What reading a property an object inherits from Object.prototype yields
\* (an object or a function, not a string).
InheritedValue == Sel("object", "", "", <<>>, <<>>)

\* JavaScript truthiness: neither null (or undefined) nor "".
Truthy(sel) == sel.form # "null" /\ ~(sel.form = "raw" /\ sel.value = <<>>)

ContainsWord == <<":", "c", "o", "n", "t", "a", "i", "n", "s">>

\* candidate.startsWith(':contains')
SelStartsWithContains(sel) ==
    \/ sel.form = "contains"
    \/ sel.form = "raw" /\ StartsWith(sel.value, ContainsWord)

\* candidate.includes(':contains')
SelIncludesContains(sel) ==
    \/ sel.form \in {"contains", "tagContains", "attrContains"}
    \/ Includes(sel.value, ContainsWord)

HasAttr(el, a) == a \in DOMAIN el.attrs

\* el.getAttribute(a) as a string; the callers test HasAttr for null.
AttrVal(el, a) == el.attrs[a]

\* The pieces of s between the characters of seps, the empty ones included
\* (String.prototype.split for a one-character separator).
RECURSIVE SplitOn(_, _)
SplitOn(s, seps) ==
    IF \A i \in 1..Len(s) : s[i] \notin seps THEN <<s>>
    ELSE LET i == CHOOSE n \in 1..Len(s) :
                     s[n] \in seps /\ \A m \in 1..(n - 1) : s[m] \notin seps
         IN  <<SubSeq(s, 1, i - 1)>> \o SplitOn(SubSeq(s, i + 1, Len(s)), seps)

RECURSIVE NonEmpty(_)
NonEmpty(parts) ==
    IF parts = <<>> THEN <<>>
    ELSE (IF Head(parts) # <<>> THEN <<Head(parts)>> ELSE <<>>)
         \o NonEmpty(Tail(parts))

\* el.className
ClassName(el) == IF HasAttr(el, "class") THEN AttrVal(el, "class") ELSE <<>>

\* The class tokens CSS matching sees: split at white space.
CssClassTokens(el) ==
    LET parts == NonEmpty(SplitOn(ClassName(el), WhiteSpace))
    IN  {parts[i] : i \in 1..Len(parts)}

\* A CSS escape read back: a backslash makes the next character literal.
\* (The escapers never put a hexadecimal digit after a backslash.)
RECURSIVE CssUnescape(_)
CssUnescape(esc) ==
    IF esc = <<>> THEN <<>>
    ELSE IF Head(esc) = BS /\ Len(esc) >= 2
         THEN <<esc[2]>> \o CssUnescape(SubSeq(esc, 3, Len(esc)))
         ELSE <<Head(esc)>> \o CssUnescape(Tail(esc))

\* Whether esc can stand between the double quotes of a CSS string: no raw
\* double quote, no raw line break, no backslash left alone at the end.
RECURSIVE CssStringOk(_)
CssStringOk(esc) ==
    IF esc = <<>> THEN TRUE
    ELSE IF Head(esc) = BS
         THEN Len(esc) >= 2 /\ esc[2] \notin {NL, CR}
              /\ CssStringOk(SubSeq(esc, 3, Len(esc)))
         ELSE Head(esc) \notin {DQ, NL, CR} /\ CssStringOk(Tail(esc))

\* The raw (not backslash-prefixed) characters of esc.
RECURSIVE RawChars(_)
RawChars(esc) ==
    IF esc = <<>> THEN {}
    ELSE IF Head(esc) = BS
         THEN RawChars(SubSeq(esc, 3, Len(esc)))
         ELSE {Head(esc)} \cup RawChars(Tail(esc))

\* Whether esc is a CSS identifier: it does not start with a digit, nor with
\* a hyphen followed by a digit or by nothing, and no punctuation or white
\* space stands raw in it.
CssIdentOk(esc) ==
    /\ esc # <<>>
    /\ Head(esc) \notin Digits
    /\ ~(Head(esc) = "-" /\ (Len(esc) = 1 \/ esc[2] \in Digits))
    /\ ~(esc[Len(esc)] = BS /\ (Len(esc) = 1 \/ esc[Len(esc) - 1] # BS))
    /\ RawChars(esc) \cap (ReservedPunct \cup WhiteSpace) = {}

\* Whether the document's query grammar accepts the selector.  :contains
\* is a jQuery extension: Document.querySelector rejects it as a syntax error.
SelectorValid(sel) ==
    CASE sel.form = "attr" -> CssStringOk(sel.value)
      [] sel.form \in {"id", "class", "tagClass"} -> CssIdentOk(sel.value)
      [] OTHER -> FALSE

SelMatches(el, sel) ==
    CASE sel.form = "attr" ->
            HasAttr(el, sel.name) /\ AttrVal(el, sel.name) = CssUnescape(sel.value)
      [] sel.form = "id" ->
            HasAttr(el, "id") /\ AttrVal(el, "id") = CssUnescape(sel.value)
      [] sel.form = "class" -> CssUnescape(sel.value) \in CssClassTokens(el)
      [] sel.form = "tagClass" ->
            el.tag = sel.tag /\ CssUnescape(sel.value) \in CssClassTokens(el)
      [] OTHER -> FALSE

\* root.querySelectorAll(sel).length for a valid selector
QueryCount(doc, sel) == Cardinality({i \in 1..Len(doc) : SelMatches(doc[i], sel)})

\* The index of the first TRUE in a sequence of flags, 0 when there is none.
FirstIndex(flags) ==
    IF \E i \in 1..Len(flags) : flags[i]
    THEN CHOOSE i \in 1..Len(flags) : flags[i] /\ \A j \in 1..(i - 1) : ~flags[j]
    ELSE 0


(***************************************************************************)
(* Heuristic rules (selectorUtils.ts).  A matcher returns                  *)
(* [threw, cand]: it either throws or returns cand, NullSel for null.      *)
(***************************************************************************)
Ret(cand) == [threw |-> FALSE, cand |-> cand]
Thrown == [threw |-> TRUE, cand |-> NullSel]

\* A data attribute rule that passes over excluded values.
byDataAttrExcluding(root, o) ==
    LET Ok(el, a) == /\ HasAttr(el, a)
                     /\ AttrVal(el, a) # <<>>
                     /\ ~isExcludedPattern(AttrVal(el, a), PatternsOf(o))
        cy == FirstIndex([n \in 1..Len(root) |-> Ok(root[n], "data-cy")])
        tid == FirstIndex([n \in 1..Len(root) |-> Ok(root[n], "data-testid")])
    IN  IF cy # 0
        THEN Ret(Sel("attr", "", "data-cy",
                     escapeAttributeValue(AttrVal(root[cy], "data-cy")), <<>>))
        ELSE IF tid # 0
        THEN Ret(Sel("attr", "", "data-testid",
                     escapeAttributeValue(AttrVal(root[tid], "data-testid")), <<>>))
        ELSE Ret(NullSel)

byDataAttr(root, o) ==
    LET HasCy(el) == HasAttr(el, "data-cy")
        HasTid(el) == HasAttr(el, "data-testid")
        cy == FirstIndex([n \in 1..Len(root) |-> HasCy(root[n])])
        tid == FirstIndex([n \in 1..Len(root) |-> HasTid(root[n])])
    IN  IF cy # 0 /\ AttrVal(root[cy], "data-cy") # <<>>
        THEN Ret(Sel("attr", "", "data-cy",
                     escapeAttributeValue(AttrVal(root[cy], "data-cy")), <<>>))
        ELSE IF tid # 0 /\ AttrVal(root[tid], "data-testid") # <<>>
        THEN Ret(Sel("attr", "", "data-testid",
                     escapeAttributeValue(AttrVal(root[tid], "data-testid")), <<>>))
        ELSE Ret(NullSel)

byAria(root, o) ==
    LET Ok(el) == /\ HasAttr(el, "aria-label")
                  /\ AttrVal(el, "aria-label") # <<>>
                  /\ ~isExcludedPattern(AttrVal(el, "aria-label"), PatternsOf(o))
        i == FirstIndex([n \in 1..Len(root) |-> Ok(root[n])])
    IN  IF i = 0 THEN Ret(NullSel)
        ELSE Ret(Sel("attr", "", "aria-label",
                     escapeAttributeValue(AttrVal(root[i], "aria-label")), <<>>))

RoleButton == <<"b", "u", "t", "t", "o", "n">>
RoleLink == <<"l", "i", "n", "k">>

\* A role rule that adds the contains-text part for any role.
byRoleRefinesAnyRole(root, o) ==
    LET Ok(el) == /\ HasAttr(el, "role")
                  /\ AttrVal(el, "role") # <<>>
                  /\ ~isExcludedPattern(AttrVal(el, "role"), PatternsOf(o))
        i == FirstIndex([n \in 1..Len(root) |-> Ok(root[n])])
    IN  IF i = 0 THEN Ret(NullSel)
        ELSE LET attr == AttrVal(root[i], "role")
                 text == Trim(root[i].text)
             IN  IF text # <<>> /\ isValidTextLength(text, o)
                 THEN Ret(Sel("attrContains", "", "role",
                              escapeAttributeValue(attr), escapeText(text)))
                 ELSE Ret(Sel("attr", "", "role", escapeAttributeValue(attr), <<>>))

byRole(root, o) ==
    LET Ok(el) == /\ HasAttr(el, "role")
                  /\ AttrVal(el, "role") # <<>>
                  /\ ~isExcludedPattern(AttrVal(el, "role"), PatternsOf(o))
        i == FirstIndex([n \in 1..Len(root) |-> Ok(root[n])])
    IN  IF i = 0 THEN Ret(NullSel)
        ELSE LET attr == AttrVal(root[i], "role")
                 text == Trim(root[i].text)
             IN  IF /\ attr \in {RoleButton, RoleLink}
                    /\ text # <<>>
                    /\ isValidTextLength(text, o)
                 THEN Ret(Sel("attrContains", "", "role",
                              escapeAttributeValue(attr), escapeText(text)))
                 ELSE Ret(Sel("attr", "", "role", escapeAttributeValue(attr), <<>>))

byLabel(root, o) ==
    LET Ok(el) == /\ el.tag = "label"
                  /\ HasAttr(el, "for")
                  /\ AttrVal(el, "for") # <<>>
                  /\ ~isExcludedPattern(AttrVal(el, "for"), PatternsOf(o))
        i == FirstIndex([n \in 1..Len(root) |-> Ok(root[n])])
    IN  IF i = 0 THEN Ret(NullSel)
        ELSE Ret(Sel("id", "", "", escapeCSSSelector(AttrVal(root[i], "for")), <<>>))

TextTags == {"button", "a", "span", "h1", "h2", "h3", "h4", "h5", "h6", "p", "div"}

\* A text rule that looks for a button or a link first.
byTextPrefersButtons(root, o) ==
    LET Ok(el) == /\ el.tag \in TextTags
                  /\ Trim(el.text) # <<>>
                  /\ isValidTextLength(Trim(el.text), o)
                  /\ ~containsExcludedPattern(Trim(el.text), PatternsOf(o))
        b == FirstIndex([n \in 1..Len(root) |->
                            Ok(root[n]) /\ root[n].tag \in {"button", "a"}])
        i == FirstIndex([n \in 1..Len(root) |-> Ok(root[n])])
    IN  IF i = 0 THEN Ret(NullSel)
        ELSE IF b # 0
             THEN Ret(Sel("tagContains", root[b].tag, "", <<>>,
                          escapeText(Trim(root[b].text))))
             ELSE Ret(Sel("contains", "", "", <<>>, escapeText(Trim(root[i].text))))

byText(root, o) ==
    LET Ok(el) == /\ el.tag \in TextTags
                  /\ Trim(el.text) # <<>>
                  /\ isValidTextLength(Trim(el.text), o)
                  /\ ~containsExcludedPattern(Trim(el.text), PatternsOf(o))
        i == FirstIndex([n \in 1..Len(root) |-> Ok(root[n])])
    IN  IF i = 0 THEN Ret(NullSel)
        ELSE IF root[i].tag \in {"button", "a"}
             THEN Ret(Sel("tagContains", root[i].tag, "", <<>>,
                          escapeText(Trim(root[i].text))))
             ELSE Ret(Sel("contains", "", "", <<>>, escapeText(Trim(root[i].text))))

\* classes.find(c => !isExcludedPattern(c, patterns)): <<c>>, or <<>> for none
StableClass(el, o) ==
    LET classes == NonEmpty(SplitOn(ClassName(el), {" "}))
        Stable(n) == ~isExcludedPattern(classes[n], PatternsOf(o))
    IN  IF \E n \in 1..Len(classes) : Stable(n)
        THEN <<classes[CHOOSE n \in 1..Len(classes) :
                           Stable(n) /\ \A m \in 1..(n - 1) : ~Stable(m)]>>
        ELSE <<>>

byClass(root, o) ==
    LET Ok(el) == HasAttr(el, "class") /\ StableClass(el, o) # <<>>
        i == FirstIndex([n \in 1..Len(root) |-> Ok(root[n])])
    IN  IF i = 0 THEN Ret(NullSel)
        ELSE LET escapedClass == escapeCSSSelector(StableClass(root[i], o)[1])
                 bare == Sel("class", "", "", escapedClass, <<>>)
             IN  IF ~SelectorValid(bare) THEN Thrown
                 ELSE IF QueryCount(root, bare) = 1 THEN Ret(bare)
                 ELSE Ret(Sel("tagClass", root[i].tag, "", escapedClass, <<>>))

byId(root, o) ==
    LET Ok(el) == /\ HasAttr(el, "id")
                  /\ AttrVal(el, "id") # <<>>
                  /\ ~isExcludedPattern(AttrVal(el, "id"), PatternsOf(o))
        i == FirstIndex([n \in 1..Len(root) |-> Ok(root[n])])
    IN  IF i = 0 THEN Ret(NullSel)
        ELSE Ret(Sel("id", "", "", escapeCSSSelector(AttrVal(root[i], "id")), <<>>))

\* The registry of healSelector: the rule names it knows.
RuleNames ==
    {"data-cy", "data-testid", "aria-label", "role", "label", "text", "class", "id"}

\* heuristics[rule](dom, opts)
RunRule(rule, root, o) ==
    CASE rule \in {"data-cy", "data-testid"} -> byDataAttr(root, o)
      [] rule = "aria-label" -> byAria(root, o)
      [] rule = "role" -> byRole(root, o)
      [] rule = "label" -> byLabel(root, o)
      [] rule = "text" -> byText(root, o)
      [] rule = "class" -> byClass(root, o)
      [] rule = "id" -> byId(root, o)


(***************************************************************************)
(* Configuration (selectorUtils.ts defaultOptions, loadHeuristicConfig).   *)
(***************************************************************************)
PatEmber == <<"^", "e", "m", "b", "e", "r", "-">>
PatReact == <<"^", "r", "e", "a", "c", "t", "-">>
PatNg == <<"^", "n", "g", "-">>
PatNumeric == <<"^", "[", "0", "-", "9", "]", "+", "$">>
PatTemp == <<"^", "t", "e", "m", "p", "-">>

DefaultPriority ==
    <<"data-cy", "data-testid", "aria-label", "role", "text", "label", "class", "id">>

defaultOptions ==
    [vals  |-> [k \in OptionKeys |->
                   CASE k = "priority" -> DefaultPriority
                     [] k = "excludePatterns" ->
                            <<PatEmber, PatReact, PatNg, PatNumeric, PatTemp>>
                     [] k = "logging" -> TRUE
                     [] k = "maxTextLength" -> DefaultMaxTextLength
                     [] k = "minTextLength" -> DefaultMinTextLength],
     undef |-> {}]

\* The configuration file src/config/healing.config.json as the engine
\* reads it: present (and parsable) or not, and its sections.
loadHeuristicConfig(configFile) ==
    IF configFile.present
    THEN SpreadMerge(defaultOptions, configFile.heuristics)
    ELSE defaultOptions

(***************************************************************************)
(* healSelector (selectorUtils.ts)                                         *)
(***************************************************************************)
\* What the try block of one rule comes to: "throw" (caught), "null" (no
\* candidate), "fail" (the candidate finds no element) or "ok" (returned).
\* querySelector('*') finds the document's root element.
\* A validation that does not query the document again.
ValidateNoRequery(dom, cand) ==
    IF SelStartsWithContains(cand) THEN "ok"
    ELSE IF ~SelectorValid(cand) THEN "throw"
    ELSE "ok"

Validate(dom, cand) ==
    IF SelStartsWithContains(cand) THEN "ok"
    ELSE IF ~SelectorValid(cand) THEN "throw"
    ELSE IF QueryCount(dom, cand) > 0 \/ SelIncludesContains(cand) THEN "ok"
    ELSE "fail"

TryRule(rule, dom, o) ==
    LET r == RunRule(rule, dom, o)
    IN  IF r.threw THEN [status |-> "throw", cand |-> NullSel]
        ELSE IF ~Truthy(r.cand) THEN [status |-> "null", cand |-> NullSel]
        ELSE [status |-> Validate(dom, r.cand), cand |-> r.cand]

\* A loop that does not return at the first validated candidate but goes on
\* and returns the last one.
RECURSIVE HealLoopKeepsGoing(_, _, _, _)
HealLoopKeepsGoing(priority, dom, o, n) ==
    IF n > Len(priority)
    THEN [healed |-> NullSel, rule |-> "", at |-> 0, invoked |-> <<>>]
    ELSE IF priority[n] \notin RuleNames
    THEN HealLoopKeepsGoing(priority, dom, o, n + 1)
    ELSE LET t == TryRule(priority[n], dom, o)
             rest == HealLoopKeepsGoing(priority, dom, o, n + 1)
         IN  IF t.status = "ok" /\ rest.at = 0
             THEN [healed |-> t.cand, rule |-> priority[n], at |-> n,
                   invoked |-> <<priority[n]>> \o rest.invoked]
             ELSE [rest EXCEPT !.invoked = <<priority[n]>> \o @]

\* A loop that an exception of a rule leaves.
RECURSIVE HealLoopThrowEnds(_, _, _, _)
HealLoopThrowEnds(priority, dom, o, n) ==
    IF n > Len(priority)
    THEN [healed |-> NullSel, rule |-> "", at |-> 0, invoked |-> <<>>]
    ELSE IF priority[n] \notin RuleNames
    THEN HealLoopThrowEnds(priority, dom, o, n + 1)
    ELSE LET t == TryRule(priority[n], dom, o)
         IN  IF t.status = "ok"
             THEN [healed |-> t.cand, rule |-> priority[n], at |-> n,
                   invoked |-> <<priority[n]>>]
             ELSE IF t.status = "throw"
             THEN [healed |-> NullSel, rule |-> "", at |-> 0,
                   invoked |-> <<priority[n]>>]
             ELSE LET rest == HealLoopThrowEnds(priority, dom, o, n + 1)
                  IN  [rest EXCEPT !.invoked = <<priority[n]>> \o @]

\* The loop over opts.priority from position n on.  The result holds the
\* selector returned (healed), the rule and position that gave it, and the
\* rules whose matcher was called, in the order of the calls (invoked).
RECURSIVE HealLoop(_, _, _, _)
HealLoop(priority, dom, o, n) ==
    IF n > Len(priority)
    THEN [healed |-> NullSel, rule |-> "", at |-> 0, invoked |-> <<>>]
    ELSE IF priority[n] \notin RuleNames
    THEN HealLoop(priority, dom, o, n + 1)
    ELSE LET t == TryRule(priority[n], dom, o)
         IN  IF t.status = "ok"
             THEN [healed |-> t.cand, rule |-> priority[n], at |-> n,
                   invoked |-> <<priority[n]>>]
             ELSE LET rest == HealLoop(priority, dom, o, n + 1)
                  IN  [rest EXCEPT !.invoked = <<priority[n]>> \o @]

healSelectorRun(dom, options, configFile) ==
    LET opts == SpreadMerge(loadHeuristicConfig(configFile), options)
    IN  HealLoop(PriorityOf(opts), dom, opts, 1)

healSelector(dom, options, configFile) ==
    healSelectorRun(dom, options, configFile).healed

\* A selector generator that passes over excluded data-cy values too.
generateSmartSelectorExcludesData(element, options, file) ==
    LET opts == SpreadMerge(loadHeuristicConfig(file), options)
        Val(a) == IF HasAttr(element, a) THEN AttrVal(element, a) ELSE <<>>
        Usable(a) == Val(a) # <<>> /\ ~isExcludedPattern(Val(a), PatternsOf(opts))
        stableClass == StableClass(element, opts)
    IN  IF Usable("data-cy")
        THEN Sel("attr", "", "data-cy", escapeAttributeValue(Val("data-cy")), <<>>)
        ELSE IF Val("data-testid") # <<>>
        THEN Sel("attr", "", "data-testid", escapeAttributeValue(Val("data-testid")), <<>>)
        ELSE IF Usable("aria-label")
        THEN Sel("attr", "", "aria-label", escapeAttributeValue(Val("aria-label")), <<>>)
        ELSE IF Usable("role")
        THEN Sel("attr", "", "role", escapeAttributeValue(Val("role")), <<>>)
        ELSE IF Usable("id")
        THEN Sel("id", "", "", escapeCSSSelector(Val("id")), <<>>)
        ELSE IF stableClass # <<>>
        THEN Sel("class", "", "", escapeCSSSelector(stableClass[1]), <<>>)
        ELSE IF /\ element.tag \in {"button", "a"}
                /\ element.text # <<>>
                /\ isValidTextLength(Trim(element.text), opts)
        THEN Sel("tagContains", element.tag, "", <<>>, escapeText(Trim(element.text)))
        ELSE NullSel

\* generateSmartSelector(element, options)
generateSmartSelector(element, options, file) ==
    LET opts == SpreadMerge(loadHeuristicConfig(file), options)
        Val(a) == IF HasAttr(element, a) THEN AttrVal(element, a) ELSE <<>>
        Usable(a) == Val(a) # <<>> /\ ~isExcludedPattern(Val(a), PatternsOf(opts))
        stableClass == StableClass(element, opts)
    IN  IF Val("data-cy") # <<>>
        THEN Sel("attr", "", "data-cy", escapeAttributeValue(Val("data-cy")), <<>>)
        ELSE IF Val("data-testid") # <<>>
        THEN Sel("attr", "", "data-testid", escapeAttributeValue(Val("data-testid")), <<>>)
        ELSE IF Usable("aria-label")
        THEN Sel("attr", "", "aria-label", escapeAttributeValue(Val("aria-label")), <<>>)
        ELSE IF Usable("role")
        THEN Sel("attr", "", "role", escapeAttributeValue(Val("role")), <<>>)
        ELSE IF Usable("id")
        THEN Sel("id", "", "", escapeCSSSelector(Val("id")), <<>>)
        ELSE IF stableClass # <<>>
        THEN Sel("class", "", "", escapeCSSSelector(stableClass[1]), <<>>)
        ELSE IF /\ element.tag \in {"button", "a"}
                /\ element.text # <<>>
                /\ isValidTextLength(Trim(element.text), opts)
        THEN Sel("tagContains", element.tag, "", <<>>, escapeText(Trim(element.text)))
        ELSE NullSel


(***************************************************************************)
(* HealingService (healingService.ts): configuration, persisted store,     *)
(* provider registry.                                                      *)
(***************************************************************************)
\* HealingResult
Result(original, healed, method, timestamp) ==
    [original |-> original, healed |-> healed, method |-> method,
     timestamp |-> timestamp]

\* The configuration loadConfig returns when the file is missing or cannot
\* be read.  Of the healing section the model keeps the two flags heal reads.
DefaultConfig ==
    [ai |-> [enabled |-> FALSE, provider |-> "copilot", providers |-> <<>>],
     heuristics |->
        [vals |-> ("priority" :> DefaultPriority)
                  @@ ("excludePatterns" :> <<PatEmber, PatReact, PatNg, PatNumeric>>)
                  @@ ("logging" :> TRUE),
         undef |-> {}],
     healing |-> [saveHealed |-> TRUE, autoHeal |-> TRUE]]

\* The parsed file is returned as it is, with the sections it holds.
loadConfig(configFile) ==
    IF configFile.present
    THEN [s \in DOMAIN configFile \ {"present"} |-> configFile[s]]
    ELSE DefaultConfig

\* this.config.ai.providers.<name>?.<field>: a truthy credential is set
Credential(cfg, name, field) ==
    name \in DOMAIN cfg.ai.providers /\ cfg.ai.providers[name][field]

initializeAIProviders(cfg) ==
    (IF Credential(cfg, "openai", "apiKey") THEN {"openai"} ELSE {})
    \cup (IF Credential(cfg, "gemini", "apiKey") THEN {"gemini"} ELSE {})
    \cup {"copilot"}
    \cup (IF Credential(cfg, "cursor", "endpoint") THEN {"cursor"} ELSE {})
    \cup (IF Credential(cfg, "warp", "endpoint") THEN {"warp"} ELSE {})

\* The persisted store healedSelectorsFile: absent, unparsable ("corrupt")
\* or holding a mapping (data).
Store(state, data) == [state |-> state, data |-> data]

loadHealedSelectors(st) == IF st.state = "ok" THEN st.data ELSE <<>>

\* What a write of the store comes to: "ok", or a failure that leaves the
\* file as it was ("failKeep") or truncated ("failCorrupt").
WriteOutcomes == {"ok", "failKeep", "failCorrupt"}

\* The object saveHealedSelectors serialises (lines 114-119): data = {} and
\* data[key] = value for every entry of the map.  Assigning data["__proto__"]
\* sets the prototype of data and creates no property, and JSON.stringify
\* writes the own properties only.
Persisted(cache) == [k \in DOMAIN cache \ {"__proto__"} |-> cache[k]]

\* saveHealedSelectors without its try/catch: a failed write throws.
saveHealedSelectorsUnguarded(cfg, cache, st, wr) ==
    IF ~cfg.healing.saveHealed
    THEN [store |-> st, saved |-> FALSE, threw |-> FALSE]
    ELSE [store |-> CASE wr = "ok" -> Store("ok", Persisted(cache))
                      [] wr = "failKeep" -> st
                      [] wr = "failCorrupt" -> Store("corrupt", <<>>),
          saved |-> wr = "ok", threw |-> wr # "ok"]

\* saveHealedSelectors: the store after it, whether it wrote, whether it threw.
saveHealedSelectors(cfg, cache, st, wr) ==
    IF ~cfg.healing.saveHealed
    THEN [store |-> st, saved |-> FALSE, threw |-> FALSE]
    ELSE [store |-> CASE wr = "ok" -> Store("ok", Persisted(cache))
                      [] wr = "failKeep" -> st
                      [] wr = "failCorrupt" -> Store("corrupt", <<>>),
          saved |-> wr = "ok", threw |-> FALSE]

\* A set that drops the other entries, and one that keeps an entry already
\* there.
StoreResultOnlyLast(cache, r) == (r.original :> r)

StoreResultKeepsFirst(cache, r) ==
    [k \in DOMAIN cache \cup {r.original} |->
        IF k \in DOMAIN cache THEN cache[k] ELSE r]

\* A set that stores every result under the key .btn.
StoreResultUnderBtn(cache, r) ==
    [k \in DOMAIN cache \cup {".btn"} |-> IF k = ".btn" THEN r ELSE cache[k]]

\* this.healedSelectors.set(result.original, result)
StoreResult(cache, r) ==
    [k \in DOMAIN cache \cup {r.original} |->
        IF k = r.original THEN r ELSE cache[k]]

\* A cache test that takes any entry for a hit, and one that never hits.
CacheHitAnyEntry(cache, key) == key \in DOMAIN cache

CacheNeverHit(cache, key) == FALSE

\* cached && cached.healed
CacheHit(cache, key) == key \in DOMAIN cache /\ Truthy(cache[key].healed)

\* Property names every object parsed from JSON inherits.
InheritedKeys == {"__proto__", "constructor", "toString", "valueOf", "hasOwnProperty"}

\* The manual override file cypress/manual-healing.json: absent, unparsable
\* ("invalid") or holding a table.  manualHealing[failingSelector] is a
\* property read of the parsed object: the table's value, else an inherited
\* property, else undefined (NullSel).
ManualLookup(manual, key) ==
    IF manual.state # "ok" THEN NullSel
    ELSE IF key \in DOMAIN manual.table THEN manual.table[key]
    ELSE IF key \in InheritedKeys THEN InheritedValue
    ELSE NullSel


(***************************************************************************)
(* HealingService.heal, stage by stage.  A stage operator returns what the *)
(* call has come to when the stage is left:                                *)
(*   result   the HealingResult in the variable result                     *)
(*   cache    this.healedSelectors                                         *)
(*   store    the persisted store                                          *)
(*   settled  "resolved" (heal returned result) or "rejected" (it threw)   *)
(*   trace    the stages entered, in order                                 *)
(*   writes   the results passed to healedSelectors.set, in order          *)
(***************************************************************************)
Exit(result, cache, st, settled, trace, writes) ==
    [result |-> result, cache |-> cache, store |-> st, settled |-> settled,
     trace |-> trace, writes |-> writes]

\* A manual stage that stores the failed result when it finds no entry.
manualStageStoresFailure(cfg, cache, st, key, result0, now, manual, wr) ==
    LET v == ManualLookup(manual, key)
        r == IF Truthy(v) THEN Result(key, v, "manual", now) ELSE result0
        c2 == StoreResult(cache, r)
        s == saveHealedSelectors(cfg, c2, st, wr)
    IN  Exit(r, c2, s.store, "resolved",
             IF Truthy(v) THEN <<"manual">> ELSE <<"manual", "failure">>, <<r>>)

\* Step 3 and the final return (lines 267-299).  result0 is the value of
\* result on entry.  An exception inside the try block is caught.
manualStage(cfg, cache, st, key, result0, now, manual, wr) ==
    LET v == ManualLookup(manual, key)
        r == Result(key, v, "manual", now)
        c2 == StoreResult(cache, r)
        s == saveHealedSelectors(cfg, c2, st, wr)
    IN  IF Truthy(v)
        THEN Exit(r, c2, s.store, "resolved",
                  IF s.threw THEN <<"manual", "failure">> ELSE <<"manual">>, <<r>>)
        ELSE Exit(result0, cache, st, "resolved", <<"manual", "failure">>, <<>>)

\* What the awaited provider call settles to: it rejects (or throws), or it
\* resolves to a string or null.
ProviderOutcome(kind, sel) == [kind |-> kind, sel |-> sel]

\* A test that takes whatever the provider resolved to for a selector.
ProviderYieldsAnything(outcome) == outcome.kind = "value"

\* if (aiResult)
ProviderYields(outcome) == outcome.kind = "value" /\ Truthy(outcome.sel)

\* Step 2 from the point where the provider call settles (lines 243-265),
\* then step 3.
providerStage(cfg, cache, st, key, result0, now, outcome, manual, wr) ==
    LET r == Result(key, outcome.sel, "ai", now)
        c2 == StoreResult(cache, r)
        s == saveHealedSelectors(cfg, c2, st, wr)
        m0 == manualStage(cfg, cache, st, key, result0, now, manual, wr)
        m1 == manualStage(cfg, c2, s.store, key, r, now, manual, wr)
    IN  IF ProviderYields(outcome)
        THEN IF s.threw
             THEN [m1 EXCEPT !.writes = <<r>> \o @]
             ELSE Exit(r, c2, s.store, "resolved", <<>>, <<r>>)
        ELSE m0

\* A gate that does not look the active provider up in the registry.
ProviderStageEnabledUnregistered(cfg, providers) == cfg.ai.enabled

\* this.config.ai.enabled && this.aiProviders.has(this.config.ai.provider)
ProviderStageEnabled(cfg, providers) ==
    cfg.ai.enabled /\ cfg.ai.provider \in providers

\* Step 1 on success (lines 219-235); h is the selector healSelector returned.
heuristicStage(cfg, cache, st, key, h, now, wr) ==
    LET r == Result(key, h, "heuristic", now)
        c2 == StoreResult(cache, r)
        s == saveHealedSelectors(cfg, c2, st, wr)
    IN  Exit(r, c2, s.store, IF s.threw THEN "rejected" ELSE "resolved",
             <<>>, <<r>>)

\* A heal that runs the heuristics whatever the autoHeal flag says.
healStartIgnoresAutoHeal(cfg, providers, cache, st, key, run, now, manual, wr) ==
    LET result0 == Result(key, NullSel, "failed", now)
        auto == TRUE
        pre == IF auto THEN <<"cache", "heuristic">> ELSE <<"cache">>
        inv == IF auto THEN run.invoked ELSE <<>>
        got == IF auto THEN run.healed ELSE NullSel
        h == heuristicStage(cfg, cache, st, key, run.healed, now, wr)
        m == manualStage(cfg, cache, st, key, result0, now, manual, wr)
    IN  IF CacheHit(cache, key)
        THEN [suspended |-> FALSE, invoked |-> <<>>, heur |-> NullSel,
              provCalls |-> <<>>,
              exit |-> Exit(cache[key], cache, st, "resolved", <<"cache">>, <<>>)]
        ELSE IF auto /\ Truthy(run.healed)
        THEN [suspended |-> FALSE, invoked |-> inv, heur |-> got,
              provCalls |-> <<>>,
              exit |-> [h EXCEPT !.trace = pre]]
        ELSE IF ProviderStageEnabled(cfg, providers)
        THEN [suspended |-> TRUE, invoked |-> inv, heur |-> got,
              provCalls |-> <<cfg.ai.provider>>,
              exit |-> Exit(result0, cache, st, "pending", pre \o <<"provider">>, <<>>)]
        ELSE [suspended |-> FALSE, invoked |-> inv, heur |-> got,
              provCalls |-> <<>>,
              exit |-> [m EXCEPT !.trace = pre \o @]]

\* heal from its call to its return or to the await of the provider call
\* (lines 196-243).  run is what healSelector(failingSelector, dom,
\* {...this.config.heuristics, ...options}) comes to, read only if the call
\* is made.  suspended tells return from await; invoked are the rules whose
\* matcher ran, heur what healSelector returned, provCalls the providers
\* called.
healStart(cfg, providers, cache, st, key, run, now, manual, wr) ==
    LET result0 == Result(key, NullSel, "failed", now)
        auto == cfg.healing.autoHeal
        pre == IF auto THEN <<"cache", "heuristic">> ELSE <<"cache">>
        inv == IF auto THEN run.invoked ELSE <<>>
        got == IF auto THEN run.healed ELSE NullSel
        h == heuristicStage(cfg, cache, st, key, run.healed, now, wr)
        m == manualStage(cfg, cache, st, key, result0, now, manual, wr)
    IN  IF CacheHit(cache, key)
        THEN [suspended |-> FALSE, invoked |-> <<>>, heur |-> NullSel,
              provCalls |-> <<>>,
              exit |-> Exit(cache[key], cache, st, "resolved", <<"cache">>, <<>>)]
        ELSE IF auto /\ Truthy(run.healed)
        THEN [suspended |-> FALSE, invoked |-> inv, heur |-> got,
              provCalls |-> <<>>,
              exit |-> [h EXCEPT !.trace = pre]]
        ELSE IF ProviderStageEnabled(cfg, providers)
        THEN [suspended |-> TRUE, invoked |-> inv, heur |-> got,
              provCalls |-> <<cfg.ai.provider>>,
              exit |-> Exit(result0, cache, st, "pending", pre \o <<"provider">>, <<>>)]
        ELSE [suspended |-> FALSE, invoked |-> inv, heur |-> got,
              provCalls |-> <<>>,
              exit |-> [m EXCEPT !.trace = pre \o @]]

\* A heal that lets the rejection of the provider call pass to its caller.
healResumeRethrows(cfg, cache, st, key, result0, trace, now, outcome, manual, wr) ==
    LET x == providerStage(cfg, cache, st, key, result0, now, outcome, manual, wr)
    IN  IF outcome.kind = "reject"
        THEN Exit(result0, cache, st, "rejected", trace, <<>>)
        ELSE [x EXCEPT !.trace = trace \o @]

\* heal from the settling of the provider call to its return (lines 243-299).
healResume(cfg, cache, st, key, result0, trace, now, outcome, manual, wr) ==
    LET x == providerStage(cfg, cache, st, key, result0, now, outcome, manual, wr)
    IN  [x EXCEPT !.trace = trace \o @]

\* A clearHealed that writes the store before it empties the map.
clearHealedSavesFirst(cfg, cache, st, wr) == saveHealedSelectors(cfg, cache, st, wr)

\* clearHealed (lines 473-476)
clearHealed(cfg, cache, st, wr) == saveHealedSelectors(cfg, <<>>, st, wr)


(***************************************************************************)
(* The inputs of the model.                                                *)
(***************************************************************************)
El(tag, attrs, text) == [tag |-> tag, attrs |-> attrs, text |-> text]

StrLogin == <<"l", "o", "g", "i", "n">>
StrClose == <<"C", "l", "o", "s", "e">>

\* The failing selectors heal is called with: two that differ in case only,
\* and a type selector that is also the name of an inherited property.
Keys == {".btn", ".BTN", "__proto__"}

\* The documents heal is called with: one without any hint, and one with
\* a data-cy and an aria-label hint.
Docs ==
    << <<El("input", <<>>, <<>>)>>,
       <<El("button", ("data-cy" :> StrLogin), <<"L", "o", "g">>),
         El("div", ("aria-label" :> StrClose), <<"X">>)>> >>

\* The per-call options: none, or a priority that puts aria-label first.
CallOptions ==
    << NoOptions,
       [vals |-> ("priority" :> <<"aria-label", "data-cy">>), undef |-> {}] >>

\* The heuristics section of a configuration file (README, AI Configuration).
FileHeuristics ==
    [vals |-> ("priority" :> DefaultPriority)
              @@ ("excludePatterns" :> <<PatEmber, PatReact, PatNg, PatNumeric>>)
              @@ ("maxTextLength" :> 50) @@ ("minTextLength" :> 1),
     undef |-> {}]

Cred(apiKey, endpoint) == [apiKey |-> apiKey, endpoint |-> endpoint]

\* ai.providers of a configuration file: nothing configured; openai with its
\* key; or openai without a key, gemini with a key, cursor with an endpoint
\* and warp with a key but no endpoint.
OpenaiKeyed == ("openai" :> Cred(TRUE, FALSE))
MixedProviders ==
    ("openai" :> Cred(FALSE, TRUE)) @@ ("gemini" :> Cred(TRUE, FALSE))
        @@ ("cursor" :> Cred(FALSE, TRUE)) @@ ("warp" :> Cred(TRUE, FALSE))

AiSection(enabled, provider, providers) ==
    [enabled |-> enabled, provider |-> provider, providers |-> providers]

\* The ai section of a configuration file.
AiSections ==
    { AiSection(FALSE, "copilot", <<>>),
      AiSection(TRUE, "copilot", <<>>),
      AiSection(TRUE, "openai", <<>>),
      AiSection(TRUE, "openai", OpenaiKeyed),
      AiSection(TRUE, "openai", MixedProviders) }

\* The healing section of a configuration file.
HealingSection(saveHealed, autoHeal) == [saveHealed |-> saveHealed, autoHeal |-> autoHeal]

HealingSections ==
    { HealingSection(TRUE, TRUE), HealingSection(FALSE, TRUE), HealingSection(TRUE, FALSE) }

ConfigFile(ai, healing) ==
    [present |-> TRUE, ai |-> ai, heuristics |-> FileHeuristics, healing |-> healing]

\* The configuration file: absent, or a complete file.  The files vary the
\* provider settings under the usual healing section, and the healing
\* section with copilot as the active provider.
ConfigFiles ==
    { [present |-> FALSE] }
    \cup { ConfigFile(a, HealingSection(TRUE, TRUE)) : a \in AiSections }
    \cup { ConfigFile(AiSection(e, "copilot", <<>>), h) :
              e \in BOOLEAN, h \in HealingSections }

\* The persisted store the engine finds when it is constructed.
InitStores ==
    { Store("absent", <<>>),
      Store("corrupt", <<>>),
      Store("ok", (".btn" :> Result(".btn", Sel("attr", "", "data-cy", <<"o", "l", "d">>, <<>>), "heuristic", 0))
                  @@ (".BTN" :> Result(".BTN", NullSel, "failed", 0))) }

\* The manual override file as a call finds it.
ManualFiles ==
    { [state |-> "absent", table |-> <<>>],
      [state |-> "invalid", table |-> <<>>],
      [state |-> "ok", table |-> (".btn" :> RawSel(<<"#", "m">>)) @@ (".BTN" :> RawSel(<<>>))],
      [state |-> "ok", table |-> (".BTN" :> RawSel(<<"#", "M">>))] }

\* What a provider call settles to.
ProviderOutcomes ==
    { ProviderOutcome("reject", NullSel),
      ProviderOutcome("value", NullSel),
      ProviderOutcome("value", RawSel(<<>>)),
      ProviderOutcome("value", RawSel(<<"#", "a", "i">>)) }

\* Bounds of the model: the number of heal calls that may be suspended at
\* their provider call at once, and the number of engine operations in a
\* run.
MaxPending == 1
MaxOps == 3

\* healSelector as heal calls it, for every configuration file, document
\* and per-call options of the model.
HeuristicRuns ==
    [cf \in ConfigFiles |->
        [d \in 1..Len(Docs) |->
            [o \in 1..Len(CallOptions) |->
                healSelectorRun(Docs[d],
                                SpreadMerge(loadConfig(cf).heuristics, CallOptions[o]),
                                cf)]]]


(***************************************************************************)
(* The state of the engine and its environment.                            *)
(***************************************************************************)
VARIABLES
    configFile,       \* src/config/healing.config.json
    config,           \* this.config
    healedSelectors,  \* this.healedSelectors: original selector -> HealingResult
    aiProviders,      \* the names registered in this.aiProviders
    store,            \* the persisted store (healedSelectorsFile)
    pending,          \* the heal calls suspended at their provider call
    now,              \* the last value Date.now() returned
    ops,              \* the number of heal and clearHealed calls made
    last,             \* what the last step did (for the properties)
    heurStored,       \* key -> the result a heuristic resolution last stored
    overwritten,      \* the keys a resumed call wrote since
    hs,               \* the last direct call of healSelector
    fn                \* the last direct call of an escaper or of a rule

vars == <<configFile, config, healedSelectors, aiProviders, store, pending,
          now, ops, last, heurStored, overwritten, hs, fn>>

NoResult == Result("", NullSel, "none", 0)
NoOutcome == ProviderOutcome("none", NullSel)

Methods(writes) == [i \in 1..Len(writes) |-> writes[i].method]

InStages(trace, stage) == \E i \in 1..Len(trace) : trace[i] = stage

\* The record of a step.  op is "init", "heal" (a heal call returned),
\* "suspend" (a heal call reached its provider call) or "clear"; x is the
\* exit of the call; hit tells that the call found a cache entry with a
\* non-null healed; heur is what healSelector returned to it (NullSel if
\* it was not called; for "clear", hit tells that the map held an entry);
\* matcherCalls counts the
\* matchers run and provCalls lists the providers called in the call;
\* manual is the override file the call read and outcome what its provider
\* call settled to, if it came to that; saved tells that the call wrote the
\* store; heurBefore and overBefore are heurStored[key] and
\* key \in overwritten as the call found them.
Step(op, key, x, hit, heur, matcherCalls, provCalls, manual, outcome, saved, hb, ob) ==
    [op |-> op, key |-> key, hit |-> hit, heur |-> heur,
     settled |-> x.settled, result |-> x.result, trace |-> x.trace,
     writes |-> Methods(x.writes), matcherCalls |-> matcherCalls,
     provCalls |-> provCalls,
     manualState |-> IF InStages(x.trace, "manual") THEN manual.state ELSE "none",
     manualHas |-> InStages(x.trace, "manual") /\ manual.state = "ok"
                   /\ key \in DOMAIN manual.table,
     manualV |-> IF InStages(x.trace, "manual") THEN ManualLookup(manual, key)
                 ELSE NullSel,
     outcome |-> outcome, saved |-> saved,
     heurBefore |-> hb, overBefore |-> ob]

NoManual == [state |-> "absent", table |-> <<>>]

\* The record of a direct call healSelector(_, HeurDocs[d], options): run is
\* what it came to.
HsCall(called, d, options, run) ==
    [called |-> called, d |-> d, options |-> options, run |-> run]

NoCall ==
    HsCall(FALSE, 0, NoOptions, [healed |-> NullSel, rule |-> "", at |-> 0, invoked |-> <<>>])

\* No escaper and no rule was called directly.
NoFn == [name |-> "none"]

InitStep ==
    Step("init", "", Exit(NoResult, <<>>, <<>>, "none", <<>>, <<>>),
         FALSE, NullSel, 0, <<>>, NoManual, NoOutcome, FALSE, NoResult, FALSE)

\* The constructor: loadConfig, loadHealedSelectors, initializeAIProviders.
Init ==
    /\ configFile \in ConfigFiles
    /\ config = loadConfig(configFile)
    /\ store \in InitStores
    /\ healedSelectors = loadHealedSelectors(store)
    /\ aiProviders = initializeAIProviders(config)
    /\ pending = <<>>
    /\ now = 0
    /\ ops = 0
    /\ last = InitStep
    /\ heurStored = <<>>
    /\ overwritten = {}
    /\ hs = NoCall
    /\ fn = NoFn

\* Date.now() in a later call: the clock has moved on.
Times == {now + 1}

HeurBefore(key) == IF key \in DOMAIN heurStored THEN heurStored[key] ELSE NoResult

\* The ghost variables after a call that left through the exit x.
GhostAfter(x, resumed) ==
    LET heuristic == x.writes # <<>> /\ x.writes[Len(x.writes)].method = "heuristic"
        key == x.result.original
    IN  /\ heurStored' =
              IF heuristic
              THEN [k \in DOMAIN heurStored \cup {key} |->
                       IF k = key THEN x.result ELSE heurStored[k]]
              ELSE heurStored
        /\ overwritten' =
              IF heuristic THEN overwritten \ {key}
              ELSE IF resumed /\ x.writes # <<>> THEN overwritten \cup {key}
              ELSE overwritten

\* The override file is an input of the calls that reach the manual stage,
\* and the outcome of a write of the calls that write the store.
ManualRead(trace) == IF InStages(trace, "manual") THEN ManualFiles ELSE {NoManual}

WriteTried(writes) ==
    IF writes # <<>> /\ config.healing.saveHealed THEN WriteOutcomes ELSE {"ok"}

Start(key, run, t, manual, wr) ==
    healStart(config, aiProviders, healedSelectors, store, key, run, t, manual, wr)

\* A call heal(key, _, _) up to its return or its await; run is what its
\* healSelector call comes to.
HealRun(key, run, t) ==
    /\ ops < MaxOps
    /\ \E manual \in ManualRead(Start(key, run, t, NoManual, "ok").exit.trace) :
       \E wr \in WriteTried(Start(key, run, t, manual, "ok").exit.writes) :
       \E h \in {Start(key, run, t, manual, wr)} :
       /\ h.suspended => Len(pending) < MaxPending
       /\ ops' = ops + 1
       /\ now' = t
       /\ healedSelectors' = h.exit.cache
       /\ store' = h.exit.store
       /\ pending' = IF h.suspended
                     THEN Append(pending,
                              [key |-> key, result0 |-> h.exit.result,
                               trace |-> h.exit.trace, heur |-> h.heur,
                               matcherCalls |-> Len(h.invoked),
                               provCalls |-> h.provCalls,
                               heurBefore |-> HeurBefore(key),
                               overBefore |-> key \in overwritten])
                     ELSE pending
       /\ last' = Step(IF h.suspended THEN "suspend" ELSE "heal", key, h.exit,
                       key \in DOMAIN healedSelectors
                          /\ Truthy(healedSelectors[key].healed),
                       h.heur, Len(h.invoked), h.provCalls, manual, NoOutcome,
                       h.exit.writes # <<>> /\ config.healing.saveHealed /\ wr = "ok",
                       HeurBefore(key), key \in overwritten)
       /\ GhostAfter(h.exit, FALSE)
       /\ UNCHANGED <<configFile, config, aiProviders, hs>>

\* A call heal(key, Docs[d], CallOptions[o]).
Heal(key, d, o, t) ==
    /\ HealRun(key, HeuristicRuns[configFile][d][o], t)
    /\ UNCHANGED fn

Finish(c, t, outcome, manual, wr) ==
    healResume(config, healedSelectors, store, c.key, c.result0, c.trace, t,
               outcome, manual, wr)

\* The provider call of the suspended call pending[i] settles and heal runs
\* on to its return.
ResumeRun(i, outcome, t) ==
    \E c \in {pending[i]} :
    \E manual \in ManualRead(Finish(c, t, outcome, NoManual, "ok").trace) :
    \E wr \in WriteTried(Finish(c, t, outcome, manual, "ok").writes) :
    \E x \in {Finish(c, t, outcome, manual, wr)} :
       /\ now' = t
       /\ healedSelectors' = x.cache
       /\ store' = x.store
       /\ pending' = SubSeq(pending, 1, i - 1) \o SubSeq(pending, i + 1, Len(pending))
       /\ last' = Step("heal", c.key, x, FALSE, c.heur, c.matcherCalls, c.provCalls, manual,
                       outcome,
                       x.writes # <<>> /\ config.healing.saveHealed /\ wr = "ok",
                       c.heurBefore, c.overBefore)
       /\ GhostAfter(x, TRUE)
       /\ UNCHANGED <<configFile, config, aiProviders, ops, hs>>

Resume(i, outcome, t) ==
    /\ ResumeRun(i, outcome, t)
    /\ UNCHANGED fn

\* A call clearHealed().
Clear(wr) ==
    /\ ops < MaxOps
    /\ wr \in WriteTried(<<NoResult>>)
    /\ \E s \in {clearHealed(config, healedSelectors, store, wr)} :
       /\ ops' = ops + 1
       /\ healedSelectors' = <<>>
       /\ store' = s.store
       /\ last' = [InitStep EXCEPT !.op = "clear", !.saved = s.saved,
                                   !.hit = healedSelectors # <<>>]
       /\ heurStored' = <<>>
       /\ overwritten' = {}
       /\ UNCHANGED <<configFile, config, aiProviders, pending, now, hs, fn>>

\* The provider call of some suspended call resolves or rejects.
ProviderSettles ==
    \E i \in 1..Len(pending), outcome \in ProviderOutcomes, t \in Times :
       Resume(i, outcome, t)

Next ==
    \/ \E key \in Keys, d \in 1..Len(Docs), o \in 1..Len(CallOptions), t \in Times :
          Heal(key, d, o, t)
    \/ ProviderSettles
    \/ \E wr \in WriteOutcomes : Clear(wr)

Spec == Init /\ [][Next]_vars

\* The constructor in a project without a store file.
InitSettling ==
    /\ Init
    /\ store = Store("absent", <<>>)

\* The engine when every provider call settles: a suspended heal call goes
\* on once its provider call has resolved or rejected.
SpecSettling == InitSettling /\ [][Next]_vars /\ WF_vars(ProviderSettles)


(***************************************************************************)
(* healSelector called directly, on documents and priority lists that make *)
(* rules succeed, fail validation, throw and be skipped.                   *)
(***************************************************************************)
StrMain == <<"m", "a", "i", "n">>

HeurDocs ==
    << \* aria-label and text succeed; the label's target is missing, the
       \* class selector is invalid, the id is excluded
       <<El("label", ("for" :> <<"x">>), <<>>),
         El("input", ("id" :> <<"1", "2">>)
                     @@ ("class" :> <<"t", "e", "m", "p", "-", "a", " ", "2", "c">>), <<>>),
         El("div", ("aria-label" :> StrClose), <<"X">>)>>,
       \* label, class and id succeed
       <<El("label", ("for" :> StrMain), <<>>),
         El("input", ("id" :> StrMain) @@ ("class" :> <<"c", "a", "r", "d">>), <<>>)>>,
       \* nothing succeeds
       <<El("input", <<>>, <<>>)>>,
       \* data-cy and data-testid succeed; role and text give a candidate
       \* the document rejects
       <<El("button", ("data-testid" :> <<"g", "o">>) @@ ("role" :> RoleButton),
            <<"G", "o">>)>>,
       \* the first label's target is missing, the second label's is there
       <<El("label", ("for" :> <<"x">>), <<>>),
         El("label", ("for" :> StrMain), <<>>),
         El("input", ("id" :> StrMain), <<>>)>> >>

\* The names a priority list is made of: rule names and two names of no
\* rule.  heuristics["constructor"] is the inherited Object function: the
\* entry passes the test of line 229, Object(dom, opts) returns dom, and
\* dom.startsWith is not a function: the TypeError is caught on line 248.  No
\* matcher runs and the loop goes on, as for "bogus".
HeurRules ==
    {"data-cy", "aria-label", "role", "label", "text", "class", "id", "bogus",
     "constructor"}

MaxPriorityLen == 3

PriorityLists == UNION {[1..k -> HeurRules] : k \in 0..MaxPriorityLen}

\* The engine as constructed, with the configuration file absent or present.
InitHeur ==
    /\ Init
    /\ store = Store("absent", <<>>)
    /\ configFile \in {[present |-> FALSE],
                       ConfigFile(AiSection(FALSE, "copilot", <<>>), HealingSection(TRUE, TRUE))}

\* healSelector(_, HeurDocs[d], {priority}).  healSelector keeps no state
\* between calls, so a behaviour makes one call.
HealSelectorCall(d, priority) ==
    LET options == [vals |-> ("priority" :> priority), undef |-> {}]
    IN  /\ ~hs.called
        /\ hs' = HsCall(TRUE, d, options, healSelectorRun(HeurDocs[d], options, configFile))
        /\ UNCHANGED <<configFile, config, healedSelectors, aiProviders, store,
                       pending, now, ops, last, heurStored, overwritten, fn>>

\* healSelector(_, HeurDocs[d]): no per-call options
HealSelectorDefault(d) ==
    /\ ~hs.called
    /\ hs' = HsCall(TRUE, d, NoOptions, healSelectorRun(HeurDocs[d], NoOptions, configFile))
    /\ UNCHANGED <<configFile, config, healedSelectors, aiProviders, store,
                   pending, now, ops, last, heurStored, overwritten, fn>>

NextHeur ==
    \/ \E d \in 1..Len(HeurDocs), priority \in PriorityLists : HealSelectorCall(d, priority)
    \/ \E d \in 1..Len(HeurDocs) : HealSelectorDefault(d)

SpecHeur == InitHeur /\ [][NextHeur]_vars


(***************************************************************************)
(* The construction of the engine (healingService.ts 49-53, and the        *)
(* singleton of line 487), on a configuration file that is absent,         *)
(* unparsable, complete or without some of its sections.                   *)
(***************************************************************************)
\* The sections of the README quick-start file: copilot enabled, openai and
\* gemini with an empty apiKey, five rules, three patterns, no healing
\* section.
QuickStartFile ==
    [present |-> TRUE,
     ai |-> AiSection(TRUE, "copilot",
                      ("openai" :> Cred(FALSE, FALSE)) @@ ("gemini" :> Cred(FALSE, FALSE))),
     heuristics |->
        [vals |-> ("priority" :> <<"data-cy", "data-testid", "aria-label", "role", "text">>)
                  @@ ("excludePatterns" :> <<PatEmber, PatReact, PatNumeric>>),
         undef |-> {}]]

\* A file with the sections named in keep, taken from a complete file.
KeepSections(file, keep) == [s \in keep \cup {"present"} |-> file[s]]

CtorFiles ==
    { [present |-> FALSE], [present |-> FALSE, unparsable |-> TRUE], QuickStartFile }
    \cup { KeepSections(ConfigFile(a, h), keep) :
              a \in AiSections, h \in HealingSections,
              keep \in SUBSET {"ai", "heuristics", "healing"} }

\* new HealingService(): the fields it sets, or threw.  Line 90 reads
\* this.config.healing.healedSelectorsFile and line 127
\* this.config.ai.providers.openai outside any try block.
constructor(file, st) ==
    LET cfg == loadConfig(file)
    IN  IF {"healing", "ai"} \subseteq DOMAIN cfg
        THEN [threw |-> FALSE, config |-> cfg,
              healedSelectors |-> loadHealedSelectors(st),
              aiProviders |-> initializeAIProviders(cfg)]
        ELSE [threw |-> TRUE, config |-> cfg, healedSelectors |-> <<>>,
              aiProviders |-> {}]

\* Before the constructor runs: the field initialisers of lines 46-48.
InitCtor ==
    /\ configFile \in CtorFiles
    /\ store \in InitStores
    /\ config = <<>>
    /\ healedSelectors = <<>>
    /\ aiProviders = {}
    /\ pending = <<>>
    /\ now = 0
    /\ ops = 0
    /\ last = InitStep
    /\ heurStored = <<>>
    /\ overwritten = {}
    /\ hs = NoCall
    /\ fn = NoFn

Construct ==
    /\ fn = NoFn
    /\ \E c \in {constructor(configFile, store)} :
          /\ fn' = [name |-> "constructor", threw |-> c.threw]
          /\ config' = c.config
          /\ healedSelectors' = c.healedSelectors
          /\ aiProviders' = c.aiProviders
    /\ UNCHANGED <<configFile, store, pending, now, ops, last, heurStored,
                   overwritten, hs>>

SpecCtor == InitCtor /\ [][Construct]_vars


(***************************************************************************)
(* The escapers called directly, on every string of a bounded length over  *)
(* an alphabet with the characters they treat, and on the strings of the   *)
(* escaping test cases.                                                    *)
(***************************************************************************)
EscChars == {BS, DQ, SQ, NL, CR, TAB, "#", "n"}

MaxEscLen == 3

\* 'test#id.class[attr]'
StrCssSpecial ==
    <<"t", "e", "s", "t", "#", "i", "d", ".", "c", "l", "a", "s", "s",
      "[", "a", "t", "t", "r", "]">>

\* 'test\\n"special\'chars\\t': backslash and n, not a line break
StrMixed ==
    <<"t", "e", "s", "t", BS, "n", DQ, "s", "p", "e", "c", "i", "a", "l", SQ,
      "c", "h", "a", "r", "s", BS, "t">>

\* 'line1\nline2\ttab'
StrWhitespace ==
    <<"l", "i", "n", "e", "1", NL, "l", "i", "n", "e", "2", TAB, "t", "a", "b">>

\* '"><script>alert(1)</script>', the input of the attribute injection
\* test case
StrInjection ==
    <<DQ, ">", "<", "s", "c", "r", "i", "p", "t", ">", "a", "l", "e", "r", "t",
      "(", "1", ")", "<", "/", "s", "c", "r", "i", "p", "t", ">">>

\* expectedAttr of the attribute injection test case, the string
\* \">\<script\>alert\(1\)\<\/script\>
ExpectedAttr ==
    <<BS, DQ, ">", BS, "<", "s", "c", "r", "i", "p", "t", BS, ">",
      "a", "l", "e", "r", "t", BS, "(", "1", BS, ")",
      BS, "<", BS, "/", "s", "c", "r", "i", "p", "t", BS, ">">>

EscInputs ==
    UNION {[1..k -> EscChars] : k \in 0..MaxEscLen}
    \cup {StrCssSpecial, StrMixed, StrWhitespace, StrInjection}

\* The record of a direct call of an escaper.
EscCall(name, input, out) == [name |-> name, input |-> input, out |-> out]

Untouched ==
    UNCHANGED <<configFile, config, healedSelectors, aiProviders, store,
                pending, now, ops, last, heurStored, overwritten, hs>>

EscapeText(s) ==
    /\ fn = NoFn
    /\ fn' = EscCall("escapeText", s, escapeText(s))
    /\ Untouched

EscapeCSSSelector(s) ==
    /\ fn = NoFn
    /\ fn' = EscCall("escapeCSSSelector", s, escapeCSSSelector(s))
    /\ Untouched

EscapeAttributeValue(s) ==
    /\ fn = NoFn
    /\ fn' = EscCall("escapeAttributeValue", s, escapeAttributeValue(s))
    /\ Untouched

NextEsc ==
    \/ \E s \in EscInputs : EscapeText(s)
    \/ \E s \in EscInputs : EscapeCSSSelector(s)
    \/ \E s \in EscInputs : EscapeAttributeValue(s)

SpecEsc == InitHeur /\ [][NextEsc]_vars


(***************************************************************************)
(* healSelector called on documents made for one rule each, with a         *)
(* priority list of that one rule and a list of exclusion patterns.        *)
(***************************************************************************)
StrSubmitNow == <<"S", "u", "b", "m", "i", "t", " ", "N", "o", "w">>

RuleDocs ==
    << \* <button>Submit Now</button>
       <<El("button", <<>>, StrSubmitNow)>>,
       \* class="temp-abc stable-btn", carried by one element
       <<El("div", ("class" :> <<"t", "e", "m", "p", "-", "a", "b", "c", " ", "s", "t", "a", "b", "l", "e", "-", "b", "t", "n">>), <<>>),
         El("input", ("class" :> <<"o", "t", "h", "e", "r">>), <<>>)>>,
       \* the class card carried by two elements
       <<El("div", ("class" :> <<"c", "a", "r", "d">>), <<>>),
         El("input", ("class" :> <<"w", "i", "d", "e", " ", "c", "a", "r", "d">>), <<>>)>>,
       \* a numeric id before a usable one; a class that starts with a digit
       <<El("input", ("id" :> <<"1", "2">>) @@ ("class" :> <<"t", "e", "m", "p", "-", "a", " ", "2", "c">>), <<>>),
         El("input", ("id" :> StrMain), <<>>)>>,
       \* excluded values before usable ones; a link with text
       <<El("label", ("for" :> <<"t", "e", "m", "p", "-", "1">>), <<>>),
         El("label", ("for" :> StrMain), <<>>),
         El("a", ("role" :> RoleLink) @@ ("aria-label" :> <<"e", "m", "b", "e", "r", "-", "x">>), <<"G", "o">>),
         El("input", ("role" :> <<"t", "a", "b">>) @@ ("aria-label" :> StrClose)
                     @@ ("id" :> StrMain), <<>>)>>,
       \* every value excluded by the default patterns
       <<El("label", ("for" :> <<"n", "g", "-", "1">>), <<>>),
         El("input", ("id" :> <<"7">>) @@ ("aria-label" :> <<"r", "e", "a", "c", "t", "-", "a">>)
                     @@ ("role" :> <<"e", "m", "b", "e", "r", "-", "r">>), <<>>)>>,
       \* empty values before usable ones
       <<El("label", ("for" :> <<>>), <<>>),
         El("input", ("id" :> <<>>) @@ ("aria-label" :> <<>>) @@ ("role" :> <<>>), <<>>),
         El("label", ("for" :> StrMain), <<>>),
         El("input", ("id" :> StrMain) @@ ("aria-label" :> StrClose)
                     @@ ("role" :> <<"t", "a", "b">>), <<>>)>>,
       \* <div>Hello</div>
       <<El("div", <<>>, <<"H", "e", "l", "l", "o">>)>>,
       \* a button whose text and aria-label hold "temp" and "myt" inside
       <<El("button", ("aria-label" :> <<"m", "y", "t", "e", "m", "p">>)
                      @@ ("role" :> RoleButton) @@ ("id" :> <<"m", "y", "t", "e", "m", "p">>),
            <<"m", "y", "t", "e", "m", "p">>),
         El("div", <<>>, <<"O", "K">>)>>,
       \* a tab with a text of three characters, a button with one, a link
       \* with two, and a paragraph without text
       <<El("div", ("role" :> <<"t", "a", "b">>), <<"a", "b", "c">>),
         El("button", ("role" :> RoleButton), <<" ", "A", " ">>),
         El("a", ("role" :> RoleLink), <<"a", "b">>),
         El("p", <<>>, <<" ">>)>>,
       \* a button and a link without text before a button with text
       <<El("p", <<>>, <<>>),
         El("button", ("role" :> RoleButton), <<>>),
         El("button", ("role" :> RoleButton), <<"a", "b">>)>>,
       \* <div><button>ab</button></div>: the text content of the container
       \* is the text of its button
       <<El("div", <<>>, <<"a", "b">>),
         El("button", <<>>, <<"a", "b">>)>>,
       \* <button data-cy="login">Log in</button>
       <<El("button", ("data-cy" :> StrLogin), <<"L", "o", "g", " ", "i", "n">>)>>,
       \* a data-testid before a data-cy whose value a default pattern matches
       <<El("a", ("data-testid" :> <<"g", "o">>), <<>>),
         El("button", ("data-cy" :> <<"t", "e", "m", "p", "-", "1">>), <<>>),
         El("input", ("data-cy" :> StrLogin) @@ ("data-testid" :> StrMain), <<>>)>>,
       \* an empty data-cy before one with a value, and a data-testid
       <<El("input", ("data-cy" :> <<>>), <<>>),
         El("input", ("data-cy" :> StrLogin), <<>>),
         El("input", ("data-testid" :> <<"7">>), <<>>)>>,
       \* a link with a text of five characters and nothing else; a button
       \* with an excluded class and a blank text
       <<El("a", <<>>, <<"G", "o", " ", "o", "n">>),
         El("button", ("class" :> <<"t", "e", "m", "p", "-", "a">>), <<" ">>)>> >>

\* excludePatterns of a call: the default list, ["^temp-"], none, or
\* ["^m-y-t$"].
RulePatterns ==
    << <<PatEmber, PatReact, PatNg, PatNumeric, PatTemp>>, <<PatTemp>>, <<>>,
       << <<"^", "m", "-", "y", "-", "t", "$">> >> >>

\* The record of a call healSelector(_, RuleDocs[d], options).
RuleCall(d, options) ==
    [name |-> "healSelector", d |-> d, options |-> options,
     run |-> healSelectorRun(RuleDocs[d], options, configFile)]

\* healSelector(_, RuleDocs[d], {priority: [rule], excludePatterns})
HealByRule(rule, d, p) ==
    /\ fn = NoFn
    /\ fn' = RuleCall(d, [vals |-> ("priority" :> <<rule>>)
                                   @@ ("excludePatterns" :> RulePatterns[p]),
                          undef |-> {}])
    /\ Untouched

\* healSelector(_, RuleDocs[d], {maxTextLength: 50}): the priority list of
\* the configuration
HealByDefault(d) ==
    /\ fn = NoFn
    /\ fn' = RuleCall(d, [vals |-> ("maxTextLength" :> DefaultMaxTextLength),
                          undef |-> {}])
    /\ Untouched

\* Bound of the model: the largest text length bound of a call.
MaxTextBound == 3

\* healSelector(_, RuleDocs[d], {priority: [rule], minTextLength,
\* maxTextLength})
HealByLength(rule, d, minTextLength, maxTextLength) ==
    /\ fn = NoFn
    /\ fn' = RuleCall(d, [vals |-> ("priority" :> <<rule>>)
                                   @@ ("minTextLength" :> minTextLength)
                                   @@ ("maxTextLength" :> maxTextLength),
                          undef |-> {}])
    /\ Untouched

\* generateSmartSelector(RuleDocs[d][i], {excludePatterns, maxTextLength})
GenerateSmartSelector(d, i, p, maxTextLength) ==
    LET options == [vals |-> ("excludePatterns" :> RulePatterns[p])
                              @@ ("maxTextLength" :> maxTextLength),
                    undef |-> {}]
    IN  /\ fn = NoFn
        /\ fn' = [name |-> "generateSmartSelector", d |-> d, i |-> i,
                  options |-> options,
                  out |-> generateSmartSelector(RuleDocs[d][i], options, configFile)]
        /\ Untouched

NextRule ==
    \/ \E d \in 1..Len(RuleDocs), p \in 1..Len(RulePatterns),
          maxTextLength \in {MaxTextBound, DefaultMaxTextLength} :
          \E i \in 1..Len(RuleDocs[d]) : GenerateSmartSelector(d, i, p, maxTextLength)
    \/ \E rule \in {"text", "role"}, d \in 1..Len(RuleDocs),
          minTextLength \in 0..MaxTextBound, maxTextLength \in 0..MaxTextBound :
          /\ minTextLength <= maxTextLength
          /\ HealByLength(rule, d, minTextLength, maxTextLength)
    \/ \E rule \in RuleNames, d \in 1..Len(RuleDocs), p \in 1..Len(RulePatterns) :
          HealByRule(rule, d, p)
    \/ \E d \in 1..Len(RuleDocs) : HealByDefault(d)

SpecRule == InitHeur /\ [][NextRule]_vars


(***************************************************************************)
(* The custom commands (commands.ts).  One command runs in a behaviour; fn *)
(* is the record of what it did.                                           *)
(***************************************************************************)
\* healOptions of smartGet (lines 102-108): the five keys are all present,
\* the ones the caller left out with the value undefined.
healOptions(options) ==
    [vals |-> [k \in DOMAIN options.vals \cap OptionKeys |-> options.vals[k]],
     undef |-> OptionKeys \ DOMAIN options.vals]

\* A smartGet that runs the matchers whether the selector matches or not.
smartGetDirectAlways(found, dom, ho, file) ==
    healSelectorRun(dom, ho, file)

\* Lines 110-131 of smartGet: healSelector is called only when the selector
\* matches nothing under body; when it matches, no rule is invoked.
smartGetDirect(found, dom, ho, file) ==
    IF found
    THEN [healed |-> NullSel, rule |-> "", at |-> 0, invoked |-> <<>>]
    ELSE healSelectorRun(dom, ho, file)

\* The Cypress command a smartGet ends in: cy.wrap of the elements found
\* (119), cy.contains or cy.get of the selector healSelector returned
\* (139-153) or heal resolved with (166-178), cy.get of the original selector
\* when heal resolved with no selector (184), or the rejection of heal.  The
\* selectors of the providers and of the manual table of the model hold no
\* :contains part.
smartGetYield(found, direct, settled, result) ==
    LET Use(sel) == IF sel.form \in {"contains", "tagContains", "attrContains"}
                       /\ sel.text # <<>>
                    THEN [cmd |-> "contains", sel |-> sel]
                    ELSE [cmd |-> "get", sel |-> sel]
    IN  IF found THEN [cmd |-> "wrap", sel |-> NullSel]
        ELSE IF Truthy(direct.healed) THEN Use(direct.healed)
        ELSE IF settled = "rejected" THEN [cmd |-> "error", sel |-> NullSel]
        ELSE IF Truthy(result.healed) THEN Use(result.healed)
        ELSE [cmd |-> "getOriginal", sel |-> NullSel]

\* smartGet(key, CallOptions[o]) on Docs[d], where found tells that the
\* selector matches under body.  A selector that matches is wrapped
\* (113-120); otherwise healSelector is called with healOptions (131) and
\* its selector, if any, is used (133-154); otherwise healingService.heal is
\* called with the same options (158).
SmartGet(key, d, o, found, t) ==
    /\ fn = NoFn
    /\ \E ho \in {healOptions(CallOptions[o])} :
       \E direct \in {smartGetDirect(found, Docs[d], ho, configFile)} :
          /\ IF found \/ Truthy(direct.healed)
             THEN Untouched
             ELSE HealRun(key,
                          healSelectorRun(Docs[d], SpreadMerge(config.heuristics, ho),
                                          configFile),
                          t)
          /\ fn' = [name |-> "smartGet", key |-> key, d |-> d,
                    options |-> CallOptions[o], found |-> found,
                    opts |-> SpreadMerge(loadHeuristicConfig(configFile), ho),
                    direct |-> direct,
                    delegated |-> ~found /\ ~Truthy(direct.healed),
                    yields |-> IF ~found /\ ~Truthy(direct.healed) /\ last'.op = "suspend"
                               THEN [cmd |-> "pending", sel |-> NullSel]
                               ELSE smartGetYield(found, direct, last'.settled,
                                                  last'.result)]

\* The heal call of a smartGet settles after its provider call, and the
\* command goes on to its last query (159-184).
SmartGetResume(i, outcome, t) ==
    /\ fn.name = "smartGet"
    /\ ResumeRun(i, outcome, t)
    /\ fn' = [fn EXCEPT !.yields = smartGetYield(fn.found, fn.direct, last'.settled,
                                                 last'.result)]

\* A smartWait whose auto-detection wins over the action of the caller.
smartWaitAutoWins(target, action, probe) ==
    IF target.type = "string" /\ StartsWith(target.chars, <<"@">>)
    THEN [kind |-> "alias", ms |-> 0]
    ELSE IF target.type = "string"
    THEN IF probe = "throw" THEN [kind |-> "queryError", ms |-> 0]
         ELSE [kind |-> IF probe = "match" THEN "disappear" ELSE "appear", ms |-> 0]
    ELSE IF target.type = "number" THEN [kind |-> "delay", ms |-> target.ms]
    ELSE [kind |-> "typeError", ms |-> 0]

\* smartWait(target, {action}) (lines 54-86).  target holds the type of the
\* argument, its characters if it is a string and its value if it is a
\* number; action is "" when the caller gave none; probe is what
\* doc.querySelector(target) comes to: "match", "none", or "throw" for a
\* string the document's selector grammar rejects.  The result names the
\* Cypress command the call ends in: cy.wait on the alias, cy.get(..)
\* .should('exist') or .should('not.exist'), cy.wait(ms), or the error.
smartWait(target, action, probe) ==
    IF target.type = "string" /\ StartsWith(target.chars, <<"@">>)
    THEN [kind |-> "alias", ms |-> 0]
    ELSE IF target.type = "string"
    THEN IF probe = "throw" THEN [kind |-> "queryError", ms |-> 0]
         ELSE LET exists == probe = "match"
                  effectiveAction == IF action # "" THEN action
                                     ELSE IF exists THEN "disappear" ELSE "appear"
              IN  [kind |-> IF effectiveAction = "appear" THEN "appear" ELSE "disappear",
                   ms |-> 0]
    ELSE IF target.type = "number" THEN [kind |-> "delay", ms |-> target.ms]
    ELSE [kind |-> "typeError", ms |-> 0]

\* A call smartWait(target, {action}).
SmartWait(target, action, probe) ==
    /\ fn = NoFn
    /\ fn' = [name |-> "smartWait", target |-> target, action |-> action,
              probe |-> probe, out |-> smartWait(target, action, probe)]
    /\ Untouched

\* Bound of the model: the number of fallback selectors of a getLoc call.
MaxFallbacks == 2

\* A trySelectors that gives up before the last selector.
trySelectorsStopsEarly(selectorsToTry, attemptCount) ==
    IF attemptCount >= Len(selectorsToTry) - 1
    THEN [status |-> "failed", current |-> "", attemptCount |-> attemptCount]
    ELSE [status |-> "queued", current |-> selectorsToTry[attemptCount + 1],
          attemptCount |-> attemptCount + 1]

\* trySelectors up to its throw or its cy.get('body') (lines 199-208), with
\* attemptCount as it finds it.
trySelectors(selectorsToTry, attemptCount) ==
    IF attemptCount >= Len(selectorsToTry)
    THEN [status |-> "failed", current |-> "", attemptCount |-> attemptCount]
    ELSE [status |-> "queued", current |-> selectorsToTry[attemptCount + 1],
          attemptCount |-> attemptCount + 1]

\* getLoc(selectorsToTry[1], the rest) on a page where the selectors in page
\* match an element: the first call of trySelectors (line 225).  tried are
\* the selectors looked up so far, matched what each lookup found.
GetLoc(selectorsToTry, page) ==
    /\ fn = NoFn
    /\ \E r \in {trySelectors(selectorsToTry, 0)} :
          fn' = [name |-> "getLoc", selectors |-> selectorsToTry, page |-> page,
                 status |-> r.status, current |-> r.current,
                 attemptCount |-> r.attemptCount, tried |-> <<>>, matched |-> <<>>,
                 yielded |-> ""]
    /\ Untouched

\* The callback of cy.get('body') (lines 210-222): the current selector is
\* looked up under body; its elements are yielded, or trySelectors runs
\* again.
GetLocThen ==
    /\ fn.name = "getLoc"
    /\ fn.status = "queued"
    /\ \E found \in {fn.current \in fn.page} :
       \E r \in {trySelectors(fn.selectors, fn.attemptCount)} :
          fn' = [fn EXCEPT !.tried = Append(@, fn.current),
                           !.matched = Append(@, found),
                           !.status = IF found THEN "yielded" ELSE r.status,
                           !.yielded = IF found THEN fn.current ELSE "",
                           !.current = IF found THEN @ ELSE r.current,
                           !.attemptCount = IF found THEN @ ELSE r.attemptCount]
    /\ Untouched

\* The page changes while a lookup is queued.
PageChange(page) ==
    /\ fn.name = "getLoc"
    /\ fn.status = "queued"
    /\ page # fn.page
    /\ fn' = [fn EXCEPT !.page = page]
    /\ Untouched

\* Bound of the model: the number of calls made to the legacy module.
MaxLegacyCalls == 2

\* The strings the three default strategies of the legacy module
\* (healing.js 4-8) make of sel: the first '#' replaced by '[data-test=',
\* the first '.' by '[class*=', and the first run of word characters
\* wrapped into [aria-label='..'].
defaultStrategies(sel) ==
    LET At(c) == {i \in 1..Len(sel) : sel[i] = c /\ \A j \in 1..(i - 1) : sel[j] # c}
        Replace(c, r) ==
            IF At(c) = {} THEN sel
            ELSE LET i == CHOOSE i \in At(c) : TRUE
                 IN  SubSeq(sel, 1, i - 1) \o r \o SubSeq(sel, i + 1, Len(sel))
        Word(i) == sel[i] \notin {"#", ".", "*", "[", "]", "=", "'", " "}
        Starts == {i \in 1..Len(sel) : Word(i) /\ \A j \in 1..(i - 1) : ~Word(j)}
        Wrap == IF Starts = {} THEN sel
                ELSE LET a == CHOOSE i \in Starts : TRUE
                         b == CHOOSE e \in a..Len(sel) :
                                 /\ \A j \in a..e : Word(j)
                                 /\ e = Len(sel) \/ ~Word(e + 1)
                     IN  SubSeq(sel, 1, a - 1) \o <<"[aria-label='">>
                            \o SubSeq(sel, a, b) \o <<"']">>
                            \o SubSeq(sel, b + 1, Len(sel))
    IN  << Replace("#", <<"[data-test=">>), Replace(".", <<"[class*=">>), Wrap >>

\* tryHealing (healing.js 43-53): the first strategy whose string is not
\* empty and differs from the original gives the alternative, which
\* recordHealing stores and saves (34-37) before it is returned; <<>> is
\* null.
tryHealing(original) ==
    LET alts == defaultStrategies(original)
        Fit == {i \in 1..Len(alts) : alts[i] # <<>> /\ alts[i] # original}
    IN  IF Fit = {} THEN <<>>
        ELSE alts[CHOOSE i \in Fit : \A j \in Fit : i <= j]

\* The selector __proto__, one word, and what reading the property
\* __proto__ of a plain object gives: Object.prototype.
ProtoKey == <<"__proto__">>

ObjectPrototype == <<"[object Object]">>

\* healedSelectors[original] = healed (healing.js 35) on the plain object m:
\* an assignment to __proto__ with a string is ignored.
recordHealing(m, original, healed) ==
    IF original = ProtoKey THEN m
    ELSE [k \in DOMAIN m \cup {original} |-> IF k = original THEN healed ELSE m[k]]

\* getHealedSelector (healing.js 39-41): healedSelectors[original] || null;
\* <<>> is null.
getHealedSelector(m, original) ==
    IF original \in DOMAIN m THEN m[original]
    ELSE IF original = ProtoKey THEN ObjectPrototype
    ELSE <<>>

\* The legacy module before its first call: nothing healed, nothing seen
\* to resolve, tryHealing not called.
LegacyState ==
    IF fn = NoFn
    THEN [name |-> "legacy", healedSelectors |-> <<>>, healFile |-> <<>>,
          calls |-> 0, worked |-> {}, tried |-> {}, selector |-> <<>>,
          out |-> [kind |-> "none", used |-> <<>>, stored |-> <<>>]]
    ELSE fn

\* fn after a call that came to out, recorded alternative alt (<<>> if it
\* recorded nothing) for selector, and saw the selectors in seen resolve.
LegacyAfter(selector, alt, seen, out) ==
    LET m == LegacyState.healedSelectors
        m2 == IF alt = <<>> THEN m ELSE recordHealing(m, selector, alt)
    IN  [LegacyState EXCEPT !.healedSelectors = m2,
                            !.healFile = IF alt = <<>> THEN @ ELSE m2,
                            !.tried = IF alt = <<>> THEN @ ELSE @ \cup {selector},
                            !.selector = selector,
                            !.calls = @ + 1,
                            !.worked = @ \cup seen,
                            !.out = out]

\* The legacy getLoc(selector) (part_002 30-45).  found tells that the
\* selector matches, resolves that the healed or alternative selector the
\* call queries matches (one with an unclosed bracket never does); catches
\* tells that the chain of cy.get offers
\* catch and runs its handler when the query fails, as the code assumes: a
\* Cypress chain has no catch method, and line 37 then throws a TypeError.
LegacyGetLoc(selector, found, resolves, catches) ==
    /\ fn = NoFn \/ fn.name = "legacy"
    /\ LegacyState.calls < MaxLegacyCalls
    /\ \E m \in {LegacyState.healedSelectors} :
       \E healed \in {getHealedSelector(m, selector)} :
       \E auto \in {tryHealing(selector)} :
       /\ resolves =>
             \E q \in {IF healed # <<>> THEN healed ELSE auto} :
                q # <<>> /\ q # ObjectPrototype /\ \A i \in 1..Len(q) : q[i] \notin {"[data-test=", "[class*="}
       /\ fn' = IF healed # <<>>
                THEN LegacyAfter(selector, <<>>, IF resolves THEN {healed} ELSE {},
                                 [kind |-> "healed", used |-> healed, stored |-> healed])
                ELSE IF ~catches
                THEN LegacyAfter(selector, <<>>, {},
                                 [kind |-> "typeError", used |-> <<>>, stored |-> <<>>])
                ELSE IF found
                THEN LegacyAfter(selector, <<>>, {selector},
                                 [kind |-> "original", used |-> selector, stored |-> <<>>])
                ELSE IF auto # <<>>
                THEN LegacyAfter(selector, auto, IF resolves THEN {auto} ELSE {},
                                 [kind |-> "auto", used |-> auto, stored |-> <<>>])
                ELSE LegacyAfter(selector, <<>>, {},
                                 [kind |-> "noStrategy", used |-> <<>>, stored |-> <<>>])
    /\ Untouched

\* A call of the exported tryHealing(original).
TryHealing(original) ==
    /\ fn = NoFn \/ fn.name = "legacy"
    /\ LegacyState.calls < MaxLegacyCalls
    /\ fn' = LegacyAfter(original, tryHealing(original), {},
                         [kind |-> "tryHealing", used |-> tryHealing(original),
                          stored |-> <<>>])
    /\ Untouched

\* The selectors the legacy module is called with.
LegacySelectors ==
    { <<"#", "a">>, <<".", "b", " ", "a">>, <<"a", "b">>, <<"*">>, <<>>, ProtoKey }

NextCmd ==
    \/ \E selector \in LegacySelectors, found \in BOOLEAN, resolves \in BOOLEAN,
          catches \in BOOLEAN :
          LegacyGetLoc(selector, found, resolves, catches)
    \/ \E original \in LegacySelectors : TryHealing(original)
    \/ \E n \in 1..(1 + MaxFallbacks), page \in SUBSET Keys :
       \E selectorsToTry \in [1..n -> Keys] : GetLoc(selectorsToTry, page)
    \/ GetLocThen
    \/ \E type \in {"string", "number", "object", "undefined", "boolean"},
          chars \in {<<"@", "a">>, <<"@">>, <<".", "x">>, <<"x", "@">>,
                     <<".", "x", ":visible">>, <<>>},
          ms \in {0, 500}, action \in {"", "appear", "disappear"},
          probe \in {"match", "none", "throw"} :
          /\ type # "string" => chars = <<>>
          /\ type # "number" => ms = 0
          /\ (type = "string" /\ chars \in {<<".", "x">>, <<"x", "@">>}) => probe # "throw"
          /\ (type = "string" /\ chars \in {<<".", "x", ":visible">>, <<>>}) => probe = "throw"
          /\ SmartWait([type |-> type, chars |-> chars, ms |-> ms], action, probe)
    \/ \E page \in SUBSET Keys : PageChange(page)
    \/ \E key \in Keys, d \in 1..Len(Docs), o \in 1..Len(CallOptions),
          found \in BOOLEAN, t \in Times :
          SmartGet(key, d, o, found, t)
    \/ \E i \in 1..Len(pending), outcome \in ProviderOutcomes, t \in Times :
          SmartGetResume(i, outcome, t)

\* Cypress runs every command it has queued.
SpecCmd == Init /\ [][NextCmd]_vars /\ WF_vars(GetLocThen)


(***************************************************************************)
(* Properties of HealingService.heal.  They are stated on last, the record *)
(* of the last step.                                                       *)
(***************************************************************************)
StageOrder == <<"cache", "heuristic", "provider", "manual", "failure">>

StageIndex(stage) == CHOOSE i \in 1..Len(StageOrder) : StageOrder[i] = stage

InStageOrder(trace) ==
    /\ \A i \in 1..Len(trace) : \E n \in 1..Len(StageOrder) : StageOrder[n] = trace[i]
    /\ \A i, j \in 1..Len(trace) : i < j => StageIndex(trace[i]) < StageIndex(trace[j])

FinalStage(trace) == trace[Len(trace)]

Returned == last.op = "heal"

Called == last.op \in {"heal", "suspend"}

Yielded(outcome) == outcome.kind = "value" /\ Truthy(outcome.sel)

\* C1: every heal call enters its stages in the order cache, heuristic,
\* provider, manual, failure; it returns at the first stage that yields a
\* selector, with the method of that stage (a cache hit returns the stored
\* entry), and enters no stage after it.
C1_StagesInOrder ==
    Called =>
        /\ InStageOrder(last.trace)
        /\ last.trace[1] = "cache"
        /\ last.op = "suspend" => FinalStage(last.trace) = "provider"
        /\ Returned =>
            /\ last.hit <=> last.trace = <<"cache">>
            /\ last.hit => last.result = healedSelectors[last.key]
            /\ InStages(last.trace, "heuristic") =>
                  (Truthy(last.heur) <=> FinalStage(last.trace) = "heuristic")
            /\ FinalStage(last.trace) = "heuristic" =>
                  last.result.method = "heuristic" /\ last.result.healed = last.heur
            /\ InStages(last.trace, "provider") =>
                  (Yielded(last.outcome) <=> FinalStage(last.trace) = "provider")
            /\ FinalStage(last.trace) = "provider" =>
                  last.result.method = "ai" /\ last.result.healed = last.outcome.sel
            /\ InStages(last.trace, "manual") =>
                  (Truthy(last.manualV) <=> FinalStage(last.trace) = "manual")
            /\ FinalStage(last.trace) = "manual" =>
                  last.result.method = "manual" /\ last.result.healed = last.manualV
            /\ FinalStage(last.trace) = "failure" =>
                  last.result.method = "failed" /\ last.result.healed = NullSel

\* A call that went through every stage up to the manual one and returned there.
C1_Witness ==
    /\ Returned
    /\ last.trace = <<"cache", "heuristic", "provider", "manual">>
    /\ last.result.method = "manual"

\* A call made after a heuristic resolution stored a result for its key,
\* with no clearHealed in between.
LaterCall == Called /\ last.heurBefore # NoResult

FromCacheOnly ==
    /\ Returned
    /\ last.trace = <<"cache">>
    /\ last.matcherCalls = 0
    /\ last.provCalls = <<>>
    /\ last.manualState = "none"

\* C2 (as stated): after a heal of K that succeeded by heuristics, any later
\* heal of K, with no clearHealed in between, returns the identical stored
\* result without running a matcher, the provider or the manual lookup.
C2_AnyLaterCall ==
    LaterCall => FromCacheOnly /\ last.result = last.heurBefore

\* C2 (amended): a later heal of K returns the entry the cache holds for K,
\* from the cache alone; that entry is the heuristic result unless a heal of
\* K that was suspended at its provider call when the heuristic result was
\* stored has since written its own result over it.
C2_CacheIdempotence ==
    LaterCall =>
        /\ FromCacheOnly
        /\ last.result = healedSelectors[last.key]
        /\ ~last.overBefore => last.result = last.heurBefore

\* A later call that was answered with the heuristic result.
C2_Witness ==
    /\ LaterCall
    /\ ~last.overBefore
    /\ last.hit
    /\ last.result.method = "heuristic"
    /\ last.result.timestamp < now

WriteThrough ==
    /\ last.key \in DOMAIN healedSelectors
    /\ healedSelectors[last.key] = last.result
    /\ store = Store("ok", healedSelectors)

\* C4: with saveHealed on and the write succeeding, when heal returns a
\* heuristic, ai or manual result that is not a cache hit, the cache maps
\* the original selector to that result and the store equals the cache; the
\* store equals the cache after clearHealed too.
C4_WriteThrough ==
    /\ (Returned /\ ~last.hit /\ last.saved
            /\ last.result.method \in {"heuristic", "ai", "manual"})
          => WriteThrough
    /\ (last.op = "clear" /\ last.saved)
          => healedSelectors = <<>> /\ store = Store("ok", healedSelectors)

\* C4 for the original selectors that are not "__proto__".
C4_OtherKeys ==
    /\ (Returned /\ ~last.hit /\ last.saved /\ last.key # "__proto__"
            /\ "__proto__" \notin DOMAIN healedSelectors
            /\ last.result.method \in {"heuristic", "ai", "manual"})
          => WriteThrough
    /\ (last.op = "clear" /\ last.saved)
          => healedSelectors = <<>> /\ store = Store("ok", healedSelectors)

\* A heal of the key on the document with hints, made in the state after the step.
WouldHeal(key) ==
    healStart(config, aiProviders, healedSelectors', store', key,
              HeuristicRuns[configFile][2][1], now' + 1, NoManual, "ok").exit.result

\* C5: a heal call that returns method failed writes nothing: the cache and
\* the store are as they were, so that, with no entry for the selector, a
\* later heal of it runs the stages again and succeeds on a document with a
\* hint.
C5_FailedNotCached ==
    [][(last'.op = "heal" /\ last'.result.method = "failed") =>
          /\ healedSelectors' = healedSelectors
          /\ store' = store
          /\ last'.writes = <<>>
          /\ (/\ config.healing.autoHeal
              /\ ~(last'.key \in DOMAIN healedSelectors'
                     /\ Truthy(healedSelectors'[last'.key].healed)))
                => WouldHeal(last'.key).method = "heuristic"]_vars

\* A call returned failed and left no entry for its selector.
C5_Witness ==
    /\ Returned
    /\ last.result.method = "failed"
    /\ last.key \notin DOMAIN healedSelectors
    /\ config.healing.autoHeal

WriteFailed == last.writes # <<>> /\ config.healing.saveHealed /\ ~last.saved

\* A heal call is suspended at its provider call; the call that was
\* suspended has returned.
Suspended == pending # <<>>

ReturnedAfterProvider ==
    /\ pending = <<>>
    /\ last.op = "heal"
    /\ last.outcome # NoOutcome

\* A call is either returned, resolved with a result for its selector, or
\* suspended at a provider call it made, and ran no more matchers than the
\* longest priority list has entries.
ReturnedOrAtProvider ==
    /\ Called =>
          /\ last.op = "heal" =>
                /\ last.settled = "resolved"
                /\ last.result.original = last.key
          /\ last.op = "suspend" =>
                /\ FinalStage(last.trace) = "provider"
                /\ last.provCalls # <<>>
                /\ Suspended
          /\ last.matcherCalls <= Len(DefaultPriority)
    /\ \A i \in 1..Len(pending) :
          /\ FinalStage(pending[i].trace) = "provider"
          /\ pending[i].provCalls # <<>>

\* C39: when every provider call settles, every heal call returns a result:
\* a call returns within its step unless it made a provider call, the
\* provider call is the only stage at which a call is suspended, and a
\* suspended call returns after its provider call has settled.
C39_HealReturns == [](ReturnedOrAtProvider) /\ (Suspended ~> ReturnedAfterProvider)

\* A heal call is suspended at its provider call after its matchers gave
\* nothing.
C39_Witness ==
    /\ Suspended
    /\ last.op = "suspend"
    /\ last.matcherCalls > 0

\* The result of a call that did not return a cache entry is for the
\* selector of the call, and has no selector exactly when its method is
\* failed.
ConstructedWellFormed ==
    (Called /\ ~last.hit) =>
        /\ last.result.original = last.key
        /\ (last.result.healed = NullSel) <=> (last.result.method = "failed")

\* The step puts an entry under k into the cache, or replaces the one there.
Written(k) ==
    /\ k \in DOMAIN healedSelectors'
    /\ k \in DOMAIN healedSelectors => healedSelectors'[k] # healedSelectors[k]

WellFormedEntry(k, e) ==
    /\ e.original = k
    /\ e.healed # NullSel
    /\ e.method \in {"heuristic", "ai", "manual"}

\* C40: every result heal constructs has the requested selector as its
\* original and a null healed exactly when its method is failed; every entry
\* a step of the engine writes into the cache stands under its original,
\* has a selector and one of the methods heuristic, ai and manual.
C40_WellFormed ==
    /\ [](ConstructedWellFormed)
    /\ [][\A k \in Keys : Written(k) => WellFormedEntry(k, healedSelectors'[k])]_vars

\* A resumed call wrote a provider result into the cache for a selector
\* other than .btn.
C40_Witness ==
    /\ last.op = "heal"
    /\ last.key # ".btn"
    /\ last.writes = <<"ai">>
    /\ last.key \in DOMAIN healedSelectors
    /\ healedSelectors[last.key] = last.result

C7_ProviderGate ==
    Called =>
        /\ last.provCalls # <<>> =>
              /\ ~last.hit
              /\ ~Truthy(last.heur)
              /\ last.matcherCalls > 0 => config.healing.autoHeal
              /\ config.ai.enabled
              /\ config.ai.provider \in aiProviders
              /\ last.provCalls = <<config.ai.provider>>
        /\ InStages(last.trace, "provider") <=> last.provCalls # <<>>
        /\ (~last.hit /\ ~Truthy(last.heur)
              /\ ~(config.ai.enabled /\ config.ai.provider \in aiProviders))
              => /\ last.provCalls = <<>>
                 /\ InStages(last.trace, "manual")

\* ai.enabled is set, the active provider is not registered, and a call went
\* from the heuristics to the manual lookup.
C7_Witness ==
    /\ Returned
    /\ config.ai.enabled
    /\ config.ai.provider \notin aiProviders
    /\ last.trace = <<"cache", "heuristic", "manual">>

NoSelector(outcome) ==
    outcome.kind = "reject" \/ (outcome.kind = "value" /\ ~Truthy(outcome.sel))

\* C8: when the provider call rejects or resolves to no selector, the call
\* writes no ai result, does not reject, and goes on to the manual lookup.
C8_ProviderFailure ==
    (Returned /\ InStages(last.trace, "provider") /\ NoSelector(last.outcome)) =>
        /\ last.settled = "resolved"
        /\ \A i \in 1..Len(last.writes) : last.writes[i] # "ai"
        /\ last.result.method # "ai"
        /\ InStages(last.trace, "manual")

\* The provider call rejected and the call returned the manual entry.
C8_Witness ==
    /\ Returned
    /\ last.outcome.kind = "reject"
    /\ last.result.method = "manual"

\* C9: in the manual stage heal returns method manual with the table's
\* value, and caches it, if and only if the table has a key equal to the
\* original selector; otherwise the result is failed.
C9_ManualExactKey ==
    (Returned /\ InStages(last.trace, "manual")) =>
        /\ last.manualHas <=> last.result.method = "manual"
        /\ last.result.method = "manual" =>
              /\ last.result.healed = last.manualV
              /\ healedSelectors[last.key] = last.result
        /\ ~last.manualHas => last.result.method = "failed"

\* C9 for a property read that yields a non-empty value: the read is
\* case-sensitive, and a table that is missing or unparsable yields nothing.
C9_TruthyRead ==
    (Returned /\ InStages(last.trace, "manual")) =>
        /\ Truthy(last.manualV) <=> last.result.method = "manual"
        /\ last.result.method = "manual" =>
              /\ last.result.healed = last.manualV
              /\ healedSelectors[last.key] = last.result
        /\ last.manualState # "ok" => last.result.method = "failed"

HasCredential(name) ==
    /\ name \in DOMAIN config.ai.providers
    /\ config.ai.providers[name].apiKey \/ config.ai.providers[name].endpoint

\* C10: the registry holds a provider only if its apiKey or endpoint is
\* configured; with no credential configured the registry is empty and no
\* heal call calls a provider.
C10_RegistryNeedsCredential ==
    /\ \A name \in aiProviders : HasCredential(name)
    /\ (\A name \in DOMAIN config.ai.providers : ~HasCredential(name)) =>
          /\ aiProviders = {}
          /\ last.provCalls = <<>>

Cached(k) == k \in DOMAIN healedSelectors /\ Truthy(healedSelectors[k].healed)

\* In the step a heal call was made (it returned or reached its provider
\* call), or a suspended call went on from its provider call to its return.
CallMade == last'.op \in {"heal", "suspend"} /\ last'.outcome = NoOutcome

Resumed == last'.op = "heal" /\ last'.outcome # NoOutcome

Cleared == last'.op = "clear"

EntryKept(k) == k \in DOMAIN healedSelectors' /\ healedSelectors'[k] = healedSelectors[k]

AnsweredFromCache(k) ==
    (CallMade /\ last'.key = k) =>
        /\ last'.op = "heal"
        /\ last'.trace = <<"cache">>
        /\ last'.result = healedSelectors[k]

\* C18 (as stated): once the cache holds an entry with a non-null healed
\* for K, every heal of K returns that entry and no step but clearHealed
\* replaces it, a step of a call that was suspended before included.
C18_NeverReplaced ==
    [][\A k \in Keys : Cached(k) =>
          \/ Cleared
          \/ EntryKept(k) /\ AnsweredFromCache(k)]_vars

\* C18 (amended): every heal of K made while the cache holds such an entry
\* returns it from the cache alone, and the entry stays until clearHealed,
\* but for a heal of K that was suspended at its provider call: when it goes
\* on with a provider or manual result it stores that result over the entry.
C18_ReplacedOnlyByResumedCall ==
    [][\A k \in Keys : Cached(k) =>
          \/ Cleared /\ healedSelectors' = <<>>
          \/ EntryKept(k) /\ AnsweredFromCache(k)
          \/ /\ Resumed
             /\ last'.key = k
             /\ \E i \in 1..Len(pending) : pending[i].key = k
             /\ last'.result.method \in {"ai", "manual"}
             /\ healedSelectors'[k] = last'.result]_vars

\* A heal of K was answered from the cache while another heal of K is
\* suspended at its provider call.
C18_Witness ==
    /\ Returned
    /\ last.hit
    /\ last.trace = <<"cache">>
    /\ \E i \in 1..Len(pending) : pending[i].key = last.key

\* C19: the cache maps a key to one entry, the one whose original is the
\* key; a call that does not find a non-null entry runs its own resolution,
\* whatever other calls for the key are under way; a call that stores a
\* result replaces the entry of its key, whoever wrote it, and changes no
\* other entry, and a call that stores nothing leaves the cache as it is:
\* the entry of a key is the result of the call that wrote last.
C19_LastWriterWins ==
    [][/\ \A k \in DOMAIN healedSelectors' : healedSelectors'[k].original = k
       /\ (CallMade /\ ~Cached(last'.key)) =>
              /\ ~last'.hit
              /\ Len(last'.trace) > 1
              /\ config.healing.autoHeal => last'.matcherCalls > 0
       /\ (last'.op \in {"heal", "suspend"} /\ last'.writes # <<>>) =>
              /\ DOMAIN healedSelectors' = DOMAIN healedSelectors \cup {last'.key}
              /\ healedSelectors'[last'.key] = last'.result
              /\ \A k \in DOMAIN healedSelectors \ {last'.key} :
                    healedSelectors'[k] = healedSelectors[k]
       /\ (last'.op \in {"heal", "suspend"} /\ last'.writes = <<>>) =>
              healedSelectors' = healedSelectors]_vars

\* Two heal calls for one key ran their resolutions side by side: the one
\* that had been suspended wrote last, over the heuristic result the other
\* had stored, and its result is the entry.
C19_Witness ==
    /\ Returned
    /\ last.outcome # NoOutcome
    /\ last.writes # <<>>
    /\ last.matcherCalls > 0
    /\ last.key \in DOMAIN heurStored
    /\ healedSelectors[last.key] = last.result
    /\ heurStored[last.key] # last.result
    /\ pending = <<>>

\* C20: clearHealed empties the cache and, with saveHealed on and the write
\* succeeding, writes the empty store; the heal call that follows it finds
\* no entry and runs the stages on the document it is given; no step other
\* than clearHealed removes an entry from the cache.
C20_ClearOnly ==
    [][/\ Cleared =>
              /\ healedSelectors' = <<>>
              /\ last'.saved => store' = Store("ok", <<>>)
              /\ ~config.healing.saveHealed => store' = store /\ ~last'.saved
       /\ ~Cleared => DOMAIN healedSelectors \subseteq DOMAIN healedSelectors'
       /\ (last.op = "clear" /\ CallMade) =>
              /\ ~last'.hit
              /\ Len(last'.trace) > 1
              /\ config.healing.autoHeal =>
                    /\ last'.trace[2] = "heuristic"
                    /\ last'.matcherCalls > 0
                    /\ Truthy(last'.heur) =>
                          /\ last'.result.method = "heuristic"
                          /\ last'.result.healed = last'.heur
                          /\ last'.result.timestamp = now']_vars

\* clearHealed was called on a cache with entries and emptied cache and
\* store.
C20_Witness ==
    /\ last.op = "clear"
    /\ last.hit
    /\ last.saved
    /\ healedSelectors = <<>>
    /\ store = Store("ok", <<>>)
    /\ now > 0


(***************************************************************************)
(* Properties of healSelector, stated on hs.                               *)
(***************************************************************************)
\* The options healSelector works with in the recorded call.
HsOpts == SpreadMerge(loadHeuristicConfig(configFile), hs.options)

HsPriority == PriorityOf(HsOpts)

\* The rule at position i gives, on its own, a candidate that passes validation.
Wins(i) ==
    /\ HsPriority[i] \in RuleNames
    /\ TryRule(HsPriority[i], HeurDocs[hs.d], HsOpts).status = "ok"

Winners == {i \in 1..Len(HsPriority) : Wins(i)}

FirstWinner == CHOOSE i \in Winners : \A j \in Winners : i <= j

Known(rule) == rule \in RuleNames

\* The priority list with the rule at position i moved to the front.
MovedToFront(i) ==
    <<HsPriority[i]>> \o SubSeq(HsPriority, 1, i - 1)
        \o SubSeq(HsPriority, i + 1, Len(HsPriority))

\* C3: healSelector returns the candidate of the first rule in the priority
\* list whose candidate passes validation, or null if there is none; it runs
\* the rules in list order and none after the one that succeeds; and on the
\* same document, with a rule that succeeds moved to the front of the list,
\* it is that rule that wins.
C3_FirstValidatedInOrder ==
    hs.called =>
        /\ Winners = {} =>
              /\ hs.run.healed = NullSel
              /\ hs.run.invoked = SelectSeq(HsPriority, Known)
        /\ Winners # {} =>
              /\ hs.run.at = FirstWinner
              /\ hs.run.rule = HsPriority[FirstWinner]
              /\ hs.run.healed =
                    TryRule(HsPriority[FirstWinner], HeurDocs[hs.d], HsOpts).cand
              /\ hs.run.invoked = SelectSeq(SubSeq(HsPriority, 1, FirstWinner), Known)
        /\ \A i \in Winners :
              LET moved == HealLoop(MovedToFront(i), HeurDocs[hs.d], HsOpts, 1)
              IN  moved.rule = HsPriority[i] /\ moved.at = 1

\* Two different rules succeed on the document and the one listed first won.
C3_Witness ==
    /\ hs.called
    /\ \E i, j \in Winners : HsPriority[i] # HsPriority[j]
    /\ \E i \in 1..Len(HsPriority) : i < hs.run.at /\ ~Wins(i) /\ Known(HsPriority[i])
    /\ hs.run.healed # NullSel


\* The rule at position i gives a candidate that the document accepts as a
\* selector and that finds no element.
FailsRequery(i) ==
    /\ Known(HsPriority[i])
    /\ \E r \in {RunRule(HsPriority[i], HeurDocs[hs.d], HsOpts)} :
          /\ ~r.threw
          /\ Truthy(r.cand)
          /\ ~SelIncludesContains(r.cand)
          /\ SelectorValid(r.cand)
          /\ QueryCount(HeurDocs[hs.d], r.cand) = 0

\* The position i of the priority list is reached by the call.
Reached(i) == \A j \in 1..(i - 1) : ~Wins(j)

KnownUpTo(i) == Len(SelectSeq(SubSeq(HsPriority, 1, i), Known))

\* C27: when the candidate of the rule at a position the call reaches
\* finds no element, the result is not taken from that position; the
\* matcher that runs next is the one of the next known entry of the list;
\* with no later entry that succeeds the call returns null; and no entry of
\* the list runs its matcher more than once.
C27_NextRuleAfterFailedValidation ==
    hs.called =>
        /\ Len(hs.run.invoked) <= KnownUpTo(Len(HsPriority))
        /\ \A i \in 1..Len(HsPriority) :
              (FailsRequery(i) /\ Reached(i)) =>
                  /\ hs.run.at # i
                  /\ hs.run.at = 0 \/ hs.run.at > i
                  /\ hs.run.invoked[KnownUpTo(i)] = HsPriority[i]
                  /\ \A j \in (i + 1)..Len(HsPriority) :
                        (Known(HsPriority[j]) /\ \A k \in (i + 1)..(j - 1) : ~Known(HsPriority[k])) =>
                            /\ Len(hs.run.invoked) > KnownUpTo(i)
                            /\ hs.run.invoked[KnownUpTo(i) + 1] = HsPriority[j]
                  /\ (\A j \in (i + 1)..Len(HsPriority) : ~Wins(j)) =>
                        hs.run.healed = NullSel

\* The label rule is listed twice; its candidate, from the first label,
\* finds no element, a later label of the document names an element that is
\* there, and the call returns null.
C27_Witness ==
    /\ hs.called
    /\ Len(HsPriority) >= 2
    /\ \A i \in 1..Len(HsPriority) : HsPriority[i] = "label"
    /\ FailsRequery(1)
    /\ \E n \in 2..Len(HeurDocs[hs.d]) :
          /\ HeurDocs[hs.d][n].tag = "label"
          /\ QueryCount(HeurDocs[hs.d],
                        Sel("id", "", "", AttrVal(HeurDocs[hs.d][n], "for"), <<>>)) > 0
    /\ hs.run.healed = NullSel
    /\ hs.run.invoked = HsPriority


\* The rule at position i throws, in its matcher or in the query that
\* validates its candidate.
Throws(i) ==
    /\ Known(HsPriority[i])
    /\ \E r \in {RunRule(HsPriority[i], HeurDocs[hs.d], HsOpts)} :
          \/ r.threw
          \/ /\ Truthy(r.cand)
             /\ ~SelStartsWithContains(r.cand)
             /\ ~SelectorValid(r.cand)

LaterWinners(i) == {j \in Winners : j > i}

\* C28: healSelector returns, null or a selector, whatever the list and the
\* document; an entry that names no rule runs no matcher, and an entry whose
\* rule throws gives no result; after either, the matchers of the later
\* entries run in list order, and the call returns the candidate of the
\* first later entry that succeeds, if there is one.
C28_NeverThrows ==
    hs.called =>
        /\ hs.run.healed = NullSel \/ Truthy(hs.run.healed)
        /\ \A n \in 1..Len(hs.run.invoked) : Known(hs.run.invoked[n])
        /\ \A i \in 1..Len(HsPriority) :
              ((~Known(HsPriority[i]) \/ Throws(i)) /\ Reached(i)) =>
                  /\ hs.run.at # i
                  /\ Len(hs.run.invoked) >= KnownUpTo(i)
                  /\ LaterWinners(i) = {} => hs.run.healed = NullSel
                  /\ LaterWinners(i) # {} =>
                        \E j \in LaterWinners(i) :
                           /\ \A k \in LaterWinners(i) : j <= k
                           /\ hs.run.at = j
                           /\ hs.run.healed =
                                 TryRule(HsPriority[j], HeurDocs[hs.d], HsOpts).cand
                           /\ hs.run.invoked =
                                 SelectSeq(SubSeq(HsPriority, 1, j), Known)

\* An unknown name, then a rule that throws, then a rule that succeeds and
\* gives the result.
C28_Witness ==
    /\ hs.called
    /\ Len(HsPriority) = 3
    /\ ~Known(HsPriority[1])
    /\ Throws(2)
    /\ hs.run.at = 3
    /\ Truthy(hs.run.healed)


(***************************************************************************)
(* Properties of the escapers, stated on fn.                               *)
(***************************************************************************)
EscapedBy(name) == fn.name = name

\* The number of backslashes that stand in a row right before position i.
RECURSIVE BackslashRun(_, _)
BackslashRun(s, i) ==
    IF i > 1 /\ s[i - 1] = BS THEN 1 + BackslashRun(s, i - 1) ELSE 0

\* The string in which every character c of s is replaced by piece[c].
RECURSIVE CharWise(_, _)
CharWise(s, piece) ==
    IF s = <<>> THEN <<>> ELSE piece[Head(s)] \o CharWise(Tail(s), piece)

CharsOf(s) == {s[i] : i \in 1..Len(s)}

\* C12: the output of escapeAttributeValue, read back as a double-quoted
\* literal in which a backslash makes the next character literal, is the
\* input string, for every input over backslash, both quotes and other
\* characters.
C12_AttrRoundTrip ==
    EscapedBy("escapeAttributeValue") => CssUnescape(fn.out) = fn.input

\* escapeAttributeValue acted on a string that holds a backslash, a double
\* quote and a single quote.
C12_Witness ==
    /\ EscapedBy("escapeAttributeValue")
    /\ {BS, DQ, SQ} \subseteq CharsOf(fn.input)
    /\ fn.out # fn.input

\* Every character of chars in s is preceded by an odd number of backslashes.
AllEscaped(s, chars) ==
    \A i \in 1..Len(s) : s[i] \in chars => BackslashRun(s, i) % 2 = 1

\* C13: every escaper is defined for every input, the empty string included;
\* in the outputs of escapeAttributeValue and escapeText every double quote
\* is preceded by an odd number of backslashes and no line break, which
\* ends a quoted string, stands raw; in the output of escapeCSSSelector
\* every reserved punctuation character other than an escaping backslash is
\* preceded by a backslash.
C13_NoBreakOut ==
    /\ (EscapedBy("escapeAttributeValue") \/ EscapedBy("escapeText")) =>
          /\ AllEscaped(fn.out, {DQ})
          /\ AllEscaped(fn.out, {NL, CR})
    /\ EscapedBy("escapeCSSSelector") =>
          RawChars(fn.out) \cap ReservedPunct = {}
    /\ (fn # NoFn /\ fn.input = <<>>) => fn.out = <<>>

\* C38: escapeAttributeValue makes of the input of the attribute injection
\* test case the value the test case expects.
C38_InjectionAsExpected ==
    (EscapedBy("escapeAttributeValue") /\ fn.input = StrInjection) =>
        fn.out = ExpectedAttr

\* C38 (observed): of that input escapeAttributeValue escapes the double
\* quote and nothing else, and escapeCSSSelector does not give the expected
\* value either.
C38_OnlyQuoteEscaped ==
    /\ (EscapedBy("escapeAttributeValue") /\ fn.input = StrInjection) =>
          fn.out = <<BS>> \o StrInjection
    /\ (EscapedBy("escapeCSSSelector") /\ fn.input = StrInjection) =>
          fn.out # ExpectedAttr

\* escapeAttributeValue acted on the input of the attribute injection test
\* case.
C38_Witness ==
    /\ EscapedBy("escapeAttributeValue")
    /\ fn.input = StrInjection
    /\ Len(fn.out) = Len(StrInjection) + 1

\* C13 without the line breaks in attribute values: the quotes are escaped
\* by both quoting escapers, escapeText leaves no line break, and the
\* identifier escaper leaves no reserved character raw.
C13_QuotesEscaped ==
    /\ (EscapedBy("escapeAttributeValue") \/ EscapedBy("escapeText")) =>
          AllEscaped(fn.out, {DQ})
    /\ EscapedBy("escapeText") => CharsOf(fn.out) \cap {NL, CR, TAB} = {}
    /\ EscapedBy("escapeCSSSelector") =>
          RawChars(fn.out) \cap ReservedPunct = {}
    /\ (fn # NoFn /\ fn.input = <<>>) => fn.out = <<>>

IdentifierPiece(c) == IF c \in ReservedPunct THEN <<BS, c>> ELSE <<c>>

\* 'test\\#id\\.class\\[attr\\]'
StrCssSpecialEscaped ==
    <<"t", "e", "s", "t", BS, "#", "i", "d", BS, ".", "c", "l", "a", "s", "s",
      BS, "[", "a", "t", "t", "r", BS, "]">>

\* C14: escapeCSSSelector puts a backslash before every occurrence of every
\* reserved punctuation character and leaves every other character as it
\* is; test#id.class[attr] becomes test\#id\.class\[attr\].
C14_IdentifierEscaping ==
    EscapedBy("escapeCSSSelector") =>
        /\ fn.out = CharWise(fn.input, [c \in CharsOf(fn.input) |-> IdentifierPiece(c)])
        /\ fn.input = StrCssSpecial => fn.out = StrCssSpecialEscaped

\* escapeCSSSelector acted on a string in which a reserved character occurs
\* more than once, next to a character that is not reserved.
C14_Witness ==
    /\ EscapedBy("escapeCSSSelector")
    /\ \E i, j \in 1..Len(fn.input) :
          i < j /\ fn.input[i] = fn.input[j] /\ fn.input[i] \in ReservedPunct
    /\ CharsOf(fn.input) \ ReservedPunct # {}
    /\ Len(fn.out) > Len(fn.input) + 1

TextPiece(c) ==
    CASE c = BS -> <<BS, BS>>
      [] c = DQ -> <<BS, DQ>>
      [] c = SQ -> <<BS, SQ>>
      [] c = NL -> <<BS, "n">>
      [] c = CR -> <<BS, "r">>
      [] c = TAB -> <<BS, "t">>
      [] OTHER -> <<c>>

\* C15: the output of escapeText is the input with every backslash doubled,
\* every double and single quote preceded by a backslash, and every line
\* feed, carriage return and tab replaced by \n, \r and \t: the character-
\* wise substitution, in which no inserted backslash is escaped again.
C15_FreeTextEscaping ==
    EscapedBy("escapeText") =>
        fn.out = CharWise(fn.input, [c \in CharsOf(fn.input) |-> TextPiece(c)])

\* escapeText acted on a string with a backslash, a quote and a line break.
C15_Witness ==
    /\ EscapedBy("escapeText")
    /\ BS \in CharsOf(fn.input)
    /\ CharsOf(fn.input) \cap {DQ, SQ} # {}
    /\ CharsOf(fn.input) \cap {NL, CR, TAB} # {}


(***************************************************************************)
(* Properties of the rules, stated on fn for a call of healSelector with a *)
(* priority list of one rule.                                              *)
(***************************************************************************)
FnOpts == SpreadMerge(loadHeuristicConfig(configFile), fn.options)

FnDoc == RuleDocs[fn.d]

RuleCalled(rule) ==
    /\ fn.name = "healSelector"
    /\ HasValue(fn.options, "priority")
    /\ PriorityOf(fn.options) = <<rule>>

\* What the matcher of the one rule of the call returned.
Matcher == RunRule(PriorityOf(fn.options)[1], FnDoc, FnOpts)

ContainsForms == {"contains", "tagContains", "attrContains"}

\* Any configured pattern, as a regular expression, matches the value.
Excluded(v) ==
    \E n \in 1..Len(PatternsOf(FnOpts)) : RegexTest(PatternsOf(FnOpts)[n], v)

\* C11: a candidate in contains-text form, tag-agnostic, tag-qualified or
\* role-qualified, is returned by healSelector as it is; on the document
\* <button>Submit Now</button> with maxTextLength 50 healSelector returns
\* button:contains("Submit Now").
C11_ContainsAccepted ==
    /\ (\E rule \in RuleNames : RuleCalled(rule)) =>
          (Matcher.cand.form \in ContainsForms => fn.run.healed = Matcher.cand)
    /\ (fn.name = "healSelector" /\ fn.d = 1 /\ ~HasValue(fn.options, "priority")) =>
          fn.run.healed = Sel("tagContains", "button", "", <<>>, StrSubmitNow)

\* C11 for the tag-agnostic form :contains("...") alone.
C11_TagAgnosticAccepted ==
    (\E rule \in RuleNames : RuleCalled(rule)) =>
        (Matcher.cand.form = "contains" => fn.run.healed = Matcher.cand)

\* The class tokens of an element, in order.
TokensOf(el) == NonEmpty(SplitOn(ClassName(el), {" "}))

FirstOf(flags) ==
    CHOOSE i \in 1..Len(flags) : flags[i] /\ \A j \in 1..(i - 1) : ~flags[j]

\* The elements with a class token that is not excluded.
StableAt ==
    [i \in 1..Len(FnDoc) |->
        \E n \in 1..Len(TokensOf(FnDoc[i])) : ~Excluded(TokensOf(FnDoc[i])[n])]

\* The first of them, and its first token that is not excluded.
StableEl == FnDoc[FirstOf(StableAt)]

StableToken ==
    TokensOf(StableEl)[FirstOf([n \in 1..Len(TokensOf(StableEl)) |->
                                   ~Excluded(TokensOf(StableEl)[n])])]

\* The number of elements that carry the token.
Carriers(t) ==
    Cardinality({i \in 1..Len(FnDoc) :
                    \E n \in 1..Len(TokensOf(FnDoc[i])) : TokensOf(FnDoc[i])[n] = t})

ClassRuleAsStated ==
    IF \E i \in 1..Len(FnDoc) : StableAt[i]
    THEN /\ ~Matcher.threw
         /\ ~Excluded(CssUnescape(Matcher.cand.value))
         /\ Carriers(StableToken) = 1 =>
               Matcher.cand = Sel("class", "", "", escapeCSSSelector(StableToken), <<>>)
         /\ Carriers(StableToken) > 1 =>
               Matcher.cand = Sel("tagClass", StableEl.tag, "",
                                  escapeCSSSelector(StableToken), <<>>)
    ELSE Matcher = Ret(NullSel)

\* C16: the class rule builds its selector from the first class token that
\* is not excluded, of the first element that has one; the bare class
\* selector if one element of the document carries that class, the selector
\* qualified with the element's tag if more than one does.
C16_ClassRule == RuleCalled("class") => ClassRuleAsStated

\* C16 for the class tokens that are CSS identifiers once escaped.
C16_IdentifierClass ==
    (/\ RuleCalled("class")
     /\ (\E i \in 1..Len(FnDoc) : StableAt[i]) =>
            CssIdentOk(escapeCSSSelector(StableToken)))
        => ClassRuleAsStated

ScanRules == {"id", "aria-label", "role", "label"}

\* The attribute a scanning rule reads, and whether an element is scanned.
ScanAttr(rule) == IF rule = "label" THEN "for" ELSE rule

Scanned(rule, el) ==
    HasAttr(el, ScanAttr(rule)) /\ (rule = "label" => el.tag = "label")

\* The selector a scanning rule builds from the value v.
BuiltFrom(rule, v, cand) ==
    CASE rule \in {"id", "label"} ->
            cand = Sel("id", "", "", escapeCSSSelector(v), <<>>)
      [] rule = "aria-label" ->
            cand = Sel("attr", "", "aria-label", escapeAttributeValue(v), <<>>)
      [] rule = "role" ->
            /\ cand.form \in {"attr", "attrContains"}
            /\ cand.name = "role"
            /\ cand.value = escapeAttributeValue(v)

\* The rule returned the selector of the first element flagged, or nothing
\* when no element is flagged.
ScanReturnsFirst(rule, flags) ==
    /\ ~Matcher.threw
    /\ IF \E i \in 1..Len(flags) : flags[i]
       THEN BuiltFrom(rule, AttrVal(FnDoc[FirstOf(flags)], ScanAttr(rule)), Matcher.cand)
       ELSE Matcher.cand = NullSel

NotExcludedAt(rule) ==
    [i \in 1..Len(FnDoc) |->
        Scanned(rule, FnDoc[i]) /\ ~Excluded(AttrVal(FnDoc[i], ScanAttr(rule)))]

UsableAt(rule) ==
    [i \in 1..Len(FnDoc) |->
        NotExcludedAt(rule)[i] /\ AttrVal(FnDoc[i], ScanAttr(rule)) # <<>>]

\* C17 (as stated): the id, aria-label, role and label rules return the
\* selector of the first element, in document order, whose value is not
\* matched by any exclusion pattern, and nothing when every value is
\* excluded.
C17_FirstNotExcluded ==
    \A rule \in ScanRules :
        RuleCalled(rule) => ScanReturnsFirst(rule, NotExcludedAt(rule))

\* C17 (amended): the rules return the selector of the first element whose
\* value is not empty and not matched by any exclusion pattern; an element
\* with an empty or excluded value is skipped; the rule yields nothing when
\* no element has such a value.
C17_FirstUsable ==
    \A rule \in ScanRules :
        RuleCalled(rule) => ScanReturnsFirst(rule, UsableAt(rule))

\* The id rule skipped an element whose id the pattern ^[0-9]+$ excludes
\* and returned the selector of a later element.
C17_Witness ==
    /\ RuleCalled("id")
    /\ \E i \in 1..Len(FnDoc) :
          /\ Scanned("id", FnDoc[i])
          /\ RegexTest(PatNumeric, AttrVal(FnDoc[i], "id"))
          /\ Excluded(AttrVal(FnDoc[i], "id"))
          /\ i < FirstOf(UsableAt("id"))
    /\ Truthy(Matcher.cand)


\* The length bounds the call configures, and the calls whose bounds are
\* both 1 or more.
MinConfigured == FnOpts.vals["minTextLength"]

MaxConfigured == FnOpts.vals["maxTextLength"]

WithinConfigured(text) == MinConfigured <= Len(text) /\ Len(text) <= MaxConfigured

PositiveBounds == MinConfigured >= 1 /\ MaxConfigured >= 1

\* The role rule returned, for the first element flagged, the role
\* selector with the contains-text part exactly when the role is button or
\* link and the trimmed text is not empty and within the configured
\* bounds, and the bare role selector otherwise; nothing when no element is
\* flagged.
RoleRefinedFor(flags) ==
    /\ ~Matcher.threw
    /\ IF \E i \in 1..Len(flags) : flags[i]
       THEN LET el == FnDoc[FirstOf(flags)]
                role == AttrVal(el, "role")
                refined == /\ role \in {RoleButton, RoleLink}
                           /\ Trim(el.text) # <<>>
                           /\ WithinConfigured(Trim(el.text))
            IN  Matcher.cand =
                   IF refined
                   THEN Sel("attrContains", "", "role", escapeAttributeValue(role),
                            escapeText(Trim(el.text)))
                   ELSE Sel("attr", "", "role", escapeAttributeValue(role), <<>>)
       ELSE Matcher.cand = NullSel

Kept(c) == c \notin {"^", "$", "-"}

Stripped(pattern) == SelectSeq(pattern, Kept)

HasSubstring(text, part) ==
    \E i \in 0..(Len(text) - Len(part)) : SubSeq(text, i + 1, i + Len(part)) = part

TextExcluded(text) ==
    \E n \in 1..Len(PatternsOf(FnOpts)) :
        HasSubstring(text, Stripped(PatternsOf(FnOpts)[n]))

\* The elements the text rule can use when exclusion is by substring.
TextUsableAt ==
    [i \in 1..Len(FnDoc) |->
        /\ FnDoc[i].tag \in TextTags
        /\ Trim(FnDoc[i].text) # <<>>
        /\ isValidTextLength(Trim(FnDoc[i].text), FnOpts)
        /\ ~TextExcluded(Trim(FnDoc[i].text))]

\* C30: the text rule returns the selector of the first text element whose
\* trimmed text has a valid length and holds none of the patterns, each
\* taken without any of its ^, $ and - characters, as a substring, and
\* nothing when there is no such element; the id, aria-label, role and label
\* rules take the first element whose value no pattern matches as a regular
\* expression, also when the value or the text of the element holds a
\* stripped pattern.
C30_SubstringExclusion ==
    /\ RuleCalled("text") =>
          /\ ~Matcher.threw
          /\ IF \E i \in 1..Len(FnDoc) : TextUsableAt[i]
             THEN LET el == FnDoc[FirstOf(TextUsableAt)]
                  IN  /\ Matcher.cand.form \in {"contains", "tagContains"}
                      /\ Matcher.cand.text = escapeText(Trim(el.text))
                      /\ Matcher.cand.form = "tagContains" <=> el.tag \in {"button", "a"}
             ELSE Matcher.cand = NullSel
    /\ \A rule \in ScanRules :
          RuleCalled(rule) => ScanReturnsFirst(rule, UsableAt(rule))

\* With the pattern ^m-y-t$ the text rule passed over the button with the
\* text mytemp, which the pattern does not match as a regular expression,
\* and returned the selector of a later element.
C30_Witness ==
    /\ RuleCalled("text")
    /\ \E n \in 1..Len(PatternsOf(FnOpts)) :
          /\ Len(SelectSeq(PatternsOf(FnOpts)[n], LAMBDA c : c = "-")) >= 2
          /\ HasSubstring(Trim(FnDoc[1].text), Stripped(PatternsOf(FnOpts)[n]))
    /\ FnDoc[1].tag \in TextTags
    /\ ~Excluded(Trim(FnDoc[1].text))
    /\ Truthy(Matcher.cand)
    /\ FirstOf(TextUsableAt) > 1

\* The text elements whose trimmed text is not empty, within the configured
\* bounds and free of every stripped pattern.
TextWithinAt ==
    [i \in 1..Len(FnDoc) |->
        /\ FnDoc[i].tag \in TextTags
        /\ Trim(FnDoc[i].text) # <<>>
        /\ WithinConfigured(Trim(FnDoc[i].text))
        /\ ~TextExcluded(Trim(FnDoc[i].text))]

\* A container at position i comes before a button with the same text.
ContainerBeforeButton(i) ==
    /\ FnDoc[i].tag \in TextTags \ {"button", "a"}
    /\ \E j \in (i + 1)..Len(FnDoc) :
          /\ FnDoc[j].tag = "button"
          /\ Trim(FnDoc[j].text) = Trim(FnDoc[i].text)

C33_BoundsAsConfigured ==
    /\ RuleCalled("text") =>
          IF \E i \in 1..Len(FnDoc) : TextWithinAt[i]
          THEN Matcher.cand.text = escapeText(Trim(FnDoc[FirstOf(TextWithinAt)].text))
          ELSE Matcher.cand = NullSel
    /\ RuleCalled("role") => RoleRefinedFor(UsableAt("role"))

\* What the code does with a bound of 0: the default takes its place.
InForce(configured, default) == IF configured = 0 THEN default ELSE configured

\* C33 (observed): a text rule called with the maximum 0 accepts a text of
\* n characters exactly when n is from the minimum in force to the default
\* maximum.
C33_ZeroMeansDefault ==
    (RuleCalled("text") /\ MaxConfigured = 0) =>
       \A i \in 1..Len(FnDoc) :
          (FnDoc[i].tag \in TextTags /\ Trim(FnDoc[i].text) # <<>>) =>
             (isValidTextLength(Trim(FnDoc[i].text), FnOpts)
                <=> /\ Len(Trim(FnDoc[i].text)) >= InForce(MinConfigured, DefaultMinTextLength)
                    /\ Len(Trim(FnDoc[i].text)) <= DefaultMaxTextLength)

\* The text rule was called with both bounds 0 and returned the selector of
\* a text of two characters.
C33_Witness ==
    /\ RuleCalled("text")
    /\ MinConfigured = 0
    /\ MaxConfigured = 0
    /\ Truthy(Matcher.cand)
    /\ Len(Matcher.cand.text) = 2

\* The call names one of the two data attribute rules.
DataRuleCalled == RuleCalled("data-cy") \/ RuleCalled("data-testid")

Carrying(a) == [i \in 1..Len(FnDoc) |-> HasAttr(FnDoc[i], a)]

\* The selector of attribute a of the first element that carries it, when
\* there is such an element and its value is not empty.
FromFirst(a) ==
    IF \E i \in 1..Len(FnDoc) : Carrying(a)[i]
    THEN LET v == AttrVal(FnDoc[FirstOf(Carrying(a))], a)
         IN  IF v = <<>> THEN NullSel
             ELSE Sel("attr", "", a, escapeAttributeValue(v), <<>>)
    ELSE NullSel

\* healSelector(_, <button data-cy="login">Log in</button>) was called with
\* the priority list of the configuration.
ExampleCalled ==
    /\ fn.name = "healSelector"
    /\ ~HasValue(fn.options, "priority")
    /\ FnDoc = <<El("button", ("data-cy" :> StrLogin), <<"L", "o", "g", " ", "i", "n">>)>>

ExampleHealed ==
    ExampleCalled =>
       fn.run.healed = Sel("attr", "", "data-cy", escapeAttributeValue(StrLogin), <<>>)

\* C34 (as stated): either rule name returns the selector of the first
\* element, in document order, that carries data-cy or data-testid, built
\* from its data-cy when it has one; no pattern is applied; the example
\* heals to [data-cy="login"].
C34_FirstCarryingEither ==
    /\ DataRuleCalled =>
          LET either == [i \in 1..Len(FnDoc) |->
                            Carrying("data-cy")[i] \/ Carrying("data-testid")[i]]
          IN  /\ ~Matcher.threw
              /\ IF \E i \in 1..Len(FnDoc) : either[i]
                 THEN LET el == FnDoc[FirstOf(either)]
                          a == IF HasAttr(el, "data-cy") THEN "data-cy" ELSE "data-testid"
                      IN  Matcher.cand = Sel("attr", "", a,
                                             escapeAttributeValue(AttrVal(el, a)), <<>>)
                 ELSE Matcher.cand = NullSel
    /\ ExampleHealed

\* C34 (amended): either rule name returns the data-cy selector of the
\* first element that carries data-cy, when its value is not empty, wherever
\* the elements with data-testid are; otherwise the data-testid selector of
\* the first element that carries data-testid, when its value is not empty;
\* otherwise nothing.  No pattern is applied, and the example heals to
\* [data-cy="login"].
C34_DataCyBeforeTestId ==
    /\ DataRuleCalled =>
          /\ ~Matcher.threw
          /\ Matcher.cand = IF Truthy(FromFirst("data-cy")) THEN FromFirst("data-cy")
                            ELSE FromFirst("data-testid")
    /\ ExampleHealed

\* The data-testid rule was called on a document whose first element carries
\* data-testid only and whose second carries a data-cy that a pattern of the
\* call matches, and returned the data-cy selector of the second.
C34_Witness ==
    /\ RuleCalled("data-testid")
    /\ Len(FnDoc) >= 2
    /\ HasAttr(FnDoc[1], "data-testid")
    /\ ~HasAttr(FnDoc[1], "data-cy")
    /\ HasAttr(FnDoc[2], "data-cy")
    /\ Excluded(AttrVal(FnDoc[2], "data-cy"))
    /\ Matcher.cand = Sel("attr", "", "data-cy",
                          escapeAttributeValue(AttrVal(FnDoc[2], "data-cy")), <<>>)

\* The example was healed under the priority list of the configuration.
C34_WitnessExample ==
    /\ ExampleCalled
    /\ Truthy(fn.run.healed)

\* generateSmartSelector was called, and the element it was called with.
Generated == fn.name = "generateSmartSelector"

GenEl == RuleDocs[fn.d][fn.i]

\* The selectors the element offers, in the fixed order: data-cy,
\* data-testid, aria-label, role, id, first stable class, text of a button or
\* link; NullSel stands for one the element does not offer.
GenOffers ==
    LET Val(a) == IF HasAttr(GenEl, a) THEN AttrVal(GenEl, a) ELSE <<>>
        Data(a) == IF Val(a) = <<>> THEN NullSel
                   ELSE Sel("attr", "", a, escapeAttributeValue(Val(a)), <<>>)
        Attr(a) == IF Val(a) = <<>> \/ Excluded(Val(a)) THEN NullSel
                   ELSE Sel("attr", "", a, escapeAttributeValue(Val(a)), <<>>)
        id == IF Val("id") = <<>> \/ Excluded(Val("id")) THEN NullSel
              ELSE Sel("id", "", "", escapeCSSSelector(Val("id")), <<>>)
        tokens == SelectSeq(NonEmpty(SplitOn(Val("class"), {" "})),
                            LAMBDA c : ~Excluded(c))
        class == IF tokens = <<>> THEN NullSel
                 ELSE Sel("class", "", "", escapeCSSSelector(tokens[1]), <<>>)
        text == IF /\ GenEl.tag \in {"button", "a"}
                   /\ Trim(GenEl.text) # <<>>
                   /\ Len(Trim(GenEl.text)) <= MaxConfigured
                THEN Sel("tagContains", GenEl.tag, "", <<>>, escapeText(Trim(GenEl.text)))
                ELSE NullSel
    IN  <<Data("data-cy"), Data("data-testid"), Attr("aria-label"), Attr("role"),
          id, class, text>>

\* C35: generateSmartSelector returns the first selector the element offers
\* in the fixed order, exclusion applying to aria-label, role, id and class
\* but not to the data attributes, and null when it offers none; the engine's
\* cache and store are as they were before the call.
C35_FirstAvailable ==
    Generated =>
       /\ IF \E k \in 1..Len(GenOffers) : Truthy(GenOffers[k])
          THEN fn.out = GenOffers[FirstOf([k \in 1..Len(GenOffers) |->
                                             Truthy(GenOffers[k])])]
          ELSE fn.out = NullSel
       /\ store = Store("absent", <<>>)
       /\ healedSelectors = loadHealedSelectors(store)

\* generateSmartSelector was called on an element whose data-cy a pattern of
\* the call matches and returned its data-cy selector.
C35_Witness ==
    /\ Generated
    /\ HasAttr(GenEl, "data-cy")
    /\ AttrVal(GenEl, "data-cy") # <<>>
    /\ Excluded(AttrVal(GenEl, "data-cy"))
    /\ fn.out.name = "data-cy"

\* generateSmartSelector returned null for a link whose text is longer than
\* the maximum of the call.
C35_WitnessNull ==
    /\ Generated
    /\ GenEl.tag = "a"
    /\ Len(Trim(GenEl.text)) > MaxConfigured
    /\ fn.out = NullSel

(***************************************************************************)
(* Properties of the construction of the engine.                           *)
(***************************************************************************)
Constructed == fn.name = "constructor"

ConfigSections == {"ai", "heuristics", "healing"}

\* C21: the constructor never throws; with the file missing or unparsable
\* the configuration is the built-in one, with the default priority list;
\* with a file that omits sections the engine is constructed and the
\* settings of the missing sections are the default ones.
C21_ConstructionNeverFails ==
    Constructed =>
        /\ ~fn.threw
        /\ ~configFile.present =>
              /\ config = DefaultConfig
              /\ config.heuristics.vals["priority"] = DefaultPriority
        /\ configFile.present =>
              \A s \in ConfigSections :
                  /\ s \in DOMAIN config
                  /\ config[s] = IF s \in DOMAIN configFile THEN configFile[s]
                                 ELSE DefaultConfig[s]

\* C21 for a file that is missing or unparsable, or that holds its ai and
\* healing sections: the engine is constructed, with the built-in
\* configuration in the first two cases and with the file's sections, and
\* no default in place of a missing heuristics section, in the third.
C21_MissingOrComplete ==
    (Constructed /\ (configFile.present => {"ai", "healing"} \subseteq DOMAIN configFile)) =>
        /\ ~fn.threw
        /\ ~configFile.present =>
              /\ config = DefaultConfig
              /\ config.heuristics.vals["priority"] = DefaultPriority
        /\ configFile.present =>
              /\ DOMAIN config = DOMAIN configFile \ {"present"}
              /\ \A s \in DOMAIN config : config[s] = configFile[s]


(***************************************************************************)
(* Properties of the custom commands, stated on fn and, for a smartGet     *)
(* that went on to healingService.heal, on last.                           *)
(***************************************************************************)
SmartGetMissed == fn.name = "smartGet" /\ ~fn.found

Configured == loadHeuristicConfig(configFile)

\* The rules whose matcher runs when the configured options are in force.
ConfiguredRules ==
    HealLoop(Configured.vals["priority"], Docs[fn.d], Configured, 1).invoked

\* C22: a smartGet without healing options whose selector matches nothing
\* runs the matchers of the configured priority list, in its order, and in
\* every smartGet each option the caller left out has its configured value.
C22_UnspecifiedKeepsConfigured ==
    SmartGetMissed =>
        /\ fn.options = NoOptions =>
              /\ fn.direct.invoked = ConfiguredRules
              /\ fn.direct.invoked # <<>>
        /\ \A k \in OptionKeys \ DOMAIN fn.options.vals :
              /\ HasValue(fn.opts, k)
              /\ fn.opts.vals[k] = Configured.vals[k]

\* What smartGet healed the selector to, and by which method: the selector
\* of its own healSelector call, or the one heal returned to it.
SmartGetHealed ==
    IF ~SmartGetMissed THEN [healed |-> NullSel, method |-> "none"]
    ELSE IF Truthy(fn.direct.healed)
    THEN [healed |-> fn.direct.healed, method |-> "heuristic"]
    ELSE IF last.op = "heal" /\ last.settled = "resolved" /\ Truthy(last.result.healed)
    THEN [healed |-> last.result.healed, method |-> last.result.method]
    ELSE [healed |-> NullSel, method |-> "none"]

\* C23: a selector smartGet healed is in the cache of the service, under
\* the original selector, with the method that healed it.
C23_HealedIsRecorded ==
    Truthy(SmartGetHealed.healed) =>
        /\ fn.key \in DOMAIN healedSelectors
        /\ healedSelectors[fn.key].healed = SmartGetHealed.healed
        /\ healedSelectors[fn.key].method = SmartGetHealed.method

\* C23 for the selectors healed in healingService.heal (provider, manual
\* table, cache): they are in the cache with their method.
C23_DelegatedIsRecorded ==
    (Truthy(SmartGetHealed.healed) /\ fn.delegated) =>
        /\ fn.key \in DOMAIN healedSelectors
        /\ healedSelectors[fn.key].healed = SmartGetHealed.healed
        /\ healedSelectors[fn.key].method = SmartGetHealed.method

\* C36: a smartGet whose selector matches ends in cy.wrap of the elements
\* found, with no rule invoked, no call of heal, and the cache as the
\* constructor loaded it; a smartGet whose selector matches nothing, whose
\* healSelector call returned nothing and whose heal call resolved with no
\* selector ends in cy.get of the original selector.
C36_HealsOnlyBroken ==
    fn.name = "smartGet" =>
       /\ fn.found =>
             /\ fn.yields = [cmd |-> "wrap", sel |-> NullSel]
             /\ fn.direct.invoked = <<>>
             /\ ~fn.delegated
             /\ last = InitStep
             /\ ops = 0
             /\ pending = <<>>
             /\ healedSelectors = loadHealedSelectors(store)
       /\ ( /\ SmartGetMissed
            /\ ~Truthy(fn.direct.healed)
            /\ last.op = "heal"
            /\ last.settled = "resolved"
            /\ ~Truthy(last.result.healed) ) =>
             fn.yields = [cmd |-> "getOriginal", sel |-> NullSel]
       /\ fn.yields.cmd = "getOriginal" =>
             /\ SmartGetMissed
             /\ ~Truthy(fn.direct.healed)
             /\ last.op = "heal"
             /\ last.key = fn.key
             /\ ~Truthy(last.result.healed)

\* A smartGet found its selector on a page where the rules of the call
\* would have healed it.
C36_Witness ==
    /\ fn.name = "smartGet"
    /\ fn.found
    /\ fn.yields.cmd = "wrap"
    /\ Truthy(healSelector(Docs[fn.d], healOptions(fn.options), configFile))

\* A smartGet whose provider call settled with nothing ended in the query
\* of the original selector.
C36_WitnessFallback ==
    /\ fn.name = "smartGet"
    /\ fn.yields.cmd = "getOriginal"
    /\ InStages(last.trace, "provider")
    /\ last.outcome # NoOutcome

GetLocCalled == fn.name = "getLoc"

GetLocQueued == GetLocCalled /\ fn.status = "queued"

GetLocSettled == GetLocCalled /\ fn.status \in {"yielded", "failed"}

\* The lookups of a getLoc call are those of the primary selector and the
\* fallbacks, in list order and one each at most; none is made after one
\* that matched; the selector yielded is the one of the last lookup, which
\* matched; the call fails when every selector was looked up and none
\* matched, and only then.
GetLocInOrder ==
    GetLocCalled =>
        /\ Len(fn.tried) <= Len(fn.selectors)
        /\ fn.tried = SubSeq(fn.selectors, 1, Len(fn.tried))
        /\ \A i \in 1..(Len(fn.matched) - 1) : ~fn.matched[i]
        /\ fn.status = "yielded" <=>
              (fn.matched # <<>> /\ fn.matched[Len(fn.matched)])
        /\ fn.status = "yielded" => fn.yielded = fn.tried[Len(fn.tried)]
        /\ fn.status = "failed" <=>
              (Len(fn.tried) = Len(fn.selectors)
                  /\ \A i \in 1..Len(fn.matched) : ~fn.matched[i])

\* C24: getLoc looks up the primary selector and then the fallbacks in list
\* order, yields the first that matches without looking up a later one,
\* makes at most 1 + len(fallbackSelectors) lookups, fails when none
\* matches, and every call comes to yield or to fail.
C24_GetLocFallbacks == [](GetLocInOrder) /\ (GetLocQueued ~> GetLocSettled)

\* A call with two fallbacks that yielded its last fallback after the page
\* changed, and one that failed after three lookups.
C24_Witness ==
    /\ GetLocCalled
    /\ Len(fn.selectors) = 3
    /\ Len(fn.tried) = 3
    /\ fn.status = "yielded"
    /\ fn.tried[1] \in fn.page

C24_WitnessFailed ==
    GetLocCalled /\ fn.status = "failed" /\ Len(fn.tried) = 3


SmartWaitCalled == fn.name = "smartWait"

IsAlias(target) ==
    target.type = "string" /\ target.chars # <<>> /\ target.chars[1] = "@"

IsSelector(target) == target.type = "string" /\ ~IsAlias(target)

LegacyCalled == fn.name = "legacy"

\* C26: every alternative in the healed-selectors map of the legacy module
\* and in its file was seen to resolve to an element, and so was every
\* selector getHealedSelector returned to a getLoc call.
C26_RecordedOnlyIfWorked ==
    LegacyCalled =>
        /\ \A k \in DOMAIN fn.healedSelectors : fn.healedSelectors[k] \in fn.worked
        /\ \A k \in DOMAIN fn.healFile : fn.healFile[k] \in fn.worked
        /\ fn.out.stored # <<>> => fn.out.stored \in fn.worked

\* What the legacy module does keep: the file holds what the map holds, an
\* entry is the first alternative the strategies give for its selector, and
\* getLoc uses the stored entry of a selector without querying the
\* selector itself.
C26_RecordedIsFirstStrategy ==
    LegacyCalled =>
        /\ fn.healFile = fn.healedSelectors
        /\ \A k \in DOMAIN fn.healedSelectors :
              /\ fn.healedSelectors[k] # k
              /\ fn.healedSelectors[k] \in {defaultStrategies(k)[i] : i \in 1..3}
        /\ fn.out.kind = "healed" => fn.out.used = fn.out.stored

\* The output of the first default strategy, in list order, whose output
\* is not empty and differs from the original; <<>> when there is none.
FirstFit(original) ==
    LET alts == defaultStrategies(original)
        Fits(i) == alts[i] # <<>> /\ alts[i] # original
    IN  IF Fits(1) THEN alts[1]
        ELSE IF Fits(2) THEN alts[2]
        ELSE IF Fits(3) THEN alts[3]
        ELSE <<>>

\* C37: tryHealing returns the output of the first strategy that changes the
\* selector, and null when none does; from a call that returned a selector
\* on, getHealedSelector(original) gives that selector at every later
\* state; nothing is recorded for a selector no strategy changes.
C37_RecordedIsReturned ==
    LegacyCalled =>
       /\ fn.out.kind = "tryHealing" => fn.out.used = FirstFit(fn.selector)
       /\ \A k \in fn.tried :
             getHealedSelector(fn.healedSelectors, k) = FirstFit(k)
       /\ \A k \in DOMAIN fn.healedSelectors : FirstFit(k) # <<>>

\* C37 (observed): the same for every selector but __proto__.
C37_RecordedButProto ==
    LegacyCalled =>
       /\ fn.out.kind = "tryHealing" => fn.out.used = FirstFit(fn.selector)
       /\ \A k \in fn.tried \ {ProtoKey} :
             getHealedSelector(fn.healedSelectors, k) = FirstFit(k)
       /\ \A k \in DOMAIN fn.healedSelectors : FirstFit(k) # <<>>

\* tryHealing returned a selector for __proto__, and getHealedSelector gives
\* Object.prototype for it.
C37_Witness ==
    /\ LegacyCalled
    /\ ProtoKey \in fn.tried
    /\ getHealedSelector(fn.healedSelectors, ProtoKey) = ObjectPrototype

=============================================================================
